---------------------------- MODULE Spec2Model ----------------------------
(***************************************************************************)
(* Model of the write pipeline of the OWOT bot client (src/src/bot.ts):    *)
(* writeChar fills the outgoing buffer, flushWrites transmits batches of   *)
(* at most 512 edits, the message_write handler settles the edits a write  *)
(* response names, clearWriteBuffer drops everything.                      *)
(***************************************************************************)
EXTENDS Integers, Sequences, FiniteSets, TLC

(***************************************************************************)
(* Bounds of the model.                                                    *)
(***************************************************************************)
MaxEdits == 2
MaxBuf == 2
MaxRL == 2
MaxBulkEdits == 600
MaxReq == 3
MaxTimers == 2

MaxAreaCalls == 2

(***************************************************************************)
(* Inputs of writeChar; the reason codes a server may send; the ids a     *)
(* write response may name and the number of them it accepts and rejects.  *)
(***************************************************************************)
AcceptedLens == {0, 1}
RejectedSizes == {0, 1, 2}
Xs == {-1}
Ys == {9}
Chars == {<<97>>}
Codes == {1, 2, 4}
Ids == {1, 2}

VARIABLES
    wsState,       \* readyState of this.ws: "connecting", "open", "closed"
    flushInterval, \* this.flushInterval: the handle setInterval returned, if any
    timers,        \* the interval timers armed in the runtime: handle -> interval
    timersCreated, \* number of handles setInterval has returned
    nextEditId,    \* this.nextEditId
    writeBuffer,   \* this.writeBuffer: sequence of edits
    waitingEdits,  \* this.waitingEdits: function id -> edit
    wire,          \* frames handed to ws.send by the step just taken
    events,        \* events emitted by the step just taken
    lastOp,        \* name of the operation the step just taken executed
    lastMsg,       \* the message the step just taken processed, if any
    nextPingId,    \* this.nextPingId
    nextStatsId,   \* this.nextStatsId
    nextFetchId,   \* this.nextFetchId
    listeners,     \* the onmsg closures registered per message kind, by their id
    promises,      \* the promises of the ping, stats and fetchTiles calls that took an id
    tiles,         \* this.tiles: function key -> Tile
    channelId,     \* this._channelId
    chatId,        \* this._chatId
    userCount,     \* this._userCount
    guestCursors,  \* this.guestCursors: function channel id -> <<x, y>>
    lastCall,      \* arguments and outcome of the call the step just taken made, if any
    inflight,      \* history: ids delivered to the server and not yet answered
    rlCount,       \* history: number of transient rejections the server has sent
    created,       \* history: the edits writeChar created, in call order
    acked,         \* history: ids that received acceptance or permanent rejection
    discarded,     \* history: ids clearWriteBuffer dropped
    permRej,       \* history: ids that received a permanent rejection
    permGone,      \* history: ids permanently rejected while absent from the buffer
    rlSince,       \* history: ids transiently rejected since the last transmitted batch
    requeued,      \* history: ids re-queued since the last transmitted batch or clear
    sentLast,      \* history: id of the last edit of the last transmitted batch
    everRL,        \* history: some response carried a transient rejection
    cleared,       \* history: clearWriteBuffer was called
    settledNow,    \* history: the calls whose promise the step just taken settled
    received,      \* history: the tiles some fetch or tileUpdate message carried
    fetched,       \* history: the tiles carried by a fetch message that resolved a call
    lastCursor,    \* history: per channel, the last cursor message processed since the channel message
    areaCalls,     \* the clearArea and protect calls made, in call order, with their locals
    sleepers,      \* the calls awaiting sleep(), in the order in which their timers expire
    areaSent       \* history: per clearArea or protect call, the messages it has transmitted

vars == <<wsState, flushInterval, timers, timersCreated, nextEditId, writeBuffer, waitingEdits, wire,
          events, lastOp, lastMsg, nextPingId, nextStatsId, nextFetchId, listeners,
          promises, tiles, channelId, chatId, userCount, guestCursors, lastCall, inflight, rlCount, created, acked, discarded, permRej,
          permGone, rlSince, requeued, sentLast, everRL, cleared, settledNow,
          received, fetched, lastCursor, areaCalls, sleepers, areaSent>>

(***************************************************************************)
(* Values.                                                                 *)
(***************************************************************************)
Min(a, b) == IF a < b THEN a ELSE b

Range(s) == {s[k] : k \in DOMAIN s}

EmptyMap == <<>>

MapDelete(m, k) == [j \in (DOMAIN m) \ {k} |-> m[j]]

MapSet(m, k, v) == (k :> v) @@ m

\* Date.now(): the timestamp plays no part in the pipeline.
Now == 0

\* Mutant: the tile is found by a division that rounds toward zero.
WriteTruncating(x, y, char, id, color, bgcolor) ==
    << IF y >= 0 THEN y \div 8 ELSE -((-y) \div 8),
       IF x >= 0 THEN x \div 16 ELSE -((-x) \div 16),
       y - (IF y >= 0 THEN y \div 8 ELSE -((-y) \div 8)) * 8,
       x - (IF x >= 0 THEN x \div 16 ELSE -((-x) \div 16)) * 16,
       Now, char, id, color, bgcolor >>

\* The Write tuple: [tileY, tileX, charY, charX, time, char, id, color, bgcolor].
Write(x, y, char, id, color, bgcolor) ==
    << y \div 8, x \div 16, y - (y \div 8) * 8, x - (x \div 16) * 16,
       Now, char, id, color, bgcolor >>

EditId(edit) == edit[7]

IdsOf(edits) == {EditId(edits[k]) : k \in DOMAIN edits}

WriteResult(id, state) == [name |-> "writeResult", id |-> id, state |-> state]

WriteBufferEmpty == [name |-> "writeBufferEmpty", id |-> 0, state |-> "none"]

Disconnected == [name |-> "disconnected", id |-> 0, state |-> "none"]

Frame(kind, edits) == [kind |-> kind, edits |-> edits]

MessageWrite(accepted, rejected) == [accepted |-> accepted, rejected |-> rejected]

NoMsg == MessageWrite(<<>>, <<>>)

\* A field that holds undefined, or the value v.
Undefined == <<>>

Some(v) == <<v>>

Kinds == {"ping", "stats", "fetch"}

\* The frames of ping and stats, and of fetchTiles.
Request(kind, id) == [kind |-> kind, id |-> id]

FetchRequest(id, minX, minY, maxX, maxY) ==
    [kind |-> "fetch", request |-> id,
     fetchRectangles |-> <<[minX |-> minX, minY |-> minY, maxX |-> maxX, maxY |-> maxY]>>]

NoCall == [op |-> "none", args |-> <<>>, result |-> "none"]

timerVars == <<flushInterval, timers, timersCreated>>

pipelineVars == <<timerVars, nextEditId, writeBuffer, waitingEdits>>

requestVars == <<nextPingId, nextStatsId, nextFetchId, listeners, promises>>

areaVars == <<areaCalls, sleepers>>

worldVars == <<tiles, channelId, chatId, userCount, guestCursors, areaVars>>

\* A step of the write pipeline or of the socket: no call with a result is
\* made, the requests and the world are left alone.
NoRequest == lastCall' = NoCall /\ UNCHANGED <<requestVars, worldVars>>

Session == [nextEditId |-> nextEditId, writeBuffer |-> writeBuffer, waitingEdits |-> waitingEdits]

Init ==
    /\ wsState = "connecting"
    /\ flushInterval = Undefined
    /\ timers = EmptyMap
    /\ timersCreated = 0
    /\ nextEditId = 0
    /\ writeBuffer = <<>>
    /\ waitingEdits = EmptyMap
    /\ wire = <<>>
    /\ events = <<>>
    /\ lastOp = "constructor"
    /\ lastMsg = NoMsg
    /\ nextPingId = 0
    /\ nextStatsId = 0
    /\ nextFetchId = 0
    /\ listeners = [k \in Kinds |-> <<>>]
    /\ promises = EmptyMap
    /\ tiles = EmptyMap
    /\ channelId = Undefined
    /\ chatId = Undefined
    /\ userCount = Undefined
    /\ guestCursors = EmptyMap
    /\ lastCall = NoCall
    /\ inflight = {}
    /\ rlCount = 0
    /\ created = <<>>
    /\ acked = {}
    /\ discarded = {}
    /\ permRej = {}
    /\ permGone = {}
    /\ rlSince = {}
    /\ requeued = {}
    /\ sentLast = 0
    /\ everRL = FALSE
    /\ cleared = FALSE
    /\ settledNow = {}
    /\ received = {}
    /\ fetched = {}
    /\ lastCursor = EmptyMap
    /\ areaCalls = <<>>
    /\ sleepers = <<>>
    /\ areaSent = <<>>

(***************************************************************************)
(* ws "open" handler: chathistory, cmd_opt, then setFlushInterval.         *)
(***************************************************************************)
\* The flushInterval parameter of the constructor, at its default.
CtorFlushInterval == 0

Timers == [flushInterval |-> flushInterval, timers |-> timers, timersCreated |-> timersCreated]

\* clearInterval(handle): a handle that is undefined or already cleared is ignored.
clearInterval(ts, handle) ==
    IF handle # Undefined /\ handle[1] \in DOMAIN ts THEN MapDelete(ts, handle[1]) ELSE ts

\* Mutant: the timer armed before is left running.
doSetFlushIntervalNoClear(t, interval) ==
    LET handle == t.timersCreated + 1
    IN  [flushInterval |-> Some(handle),
         timers |-> MapSet(t.timers, handle, interval),
         timersCreated |-> handle]

\* setFlushInterval(interval): clearInterval(this.flushInterval), then
\* this.flushInterval = setInterval(flushWrites, interval).
doSetFlushInterval(t, interval) ==
    LET handle == t.timersCreated + 1
    IN  [flushInterval |-> Some(handle),
         timers |-> MapSet(clearInterval(t.timers, t.flushInterval), handle, interval),
         timersCreated |-> handle]

\* Mutant: cmd_opt is sent before chathistory.
openFramesSwapped == <<Frame("cmd_opt", <<>>), Frame("chathistory", <<>>)>>

\* The two transmit calls of the open handler, in order.
openFrames == <<Frame("chathistory", <<>>), Frame("cmd_opt", <<>>)>>

wsOpen ==
    \E t \in {doSetFlushInterval(Timers, CtorFlushInterval)} :
    /\ wsState = "connecting"
    /\ wsState' = "open"
    /\ wire' = openFrames
    /\ flushInterval' = t.flushInterval
    /\ timers' = t.timers
    /\ timersCreated' = t.timersCreated
    /\ events' = <<>>
    /\ lastOp' = "open"
    /\ lastMsg' = NoMsg
    /\ NoRequest
    /\ UNCHANGED <<nextEditId, writeBuffer, waitingEdits>>

(***************************************************************************)
(* ws "close" handler: emits "disconnected"; nothing else is touched.      *)
(***************************************************************************)
\* Mutant: closing rejects the awaitables that are still pending.
wsCloseRejectsPending ==
    /\ wsState \in {"connecting", "open"}
    /\ wsState' = "closed"
    /\ events' = <<Disconnected>>
    /\ wire' = <<>>
    /\ lastOp' = "close"
    /\ lastMsg' = NoMsg
    /\ lastCall' = NoCall
    /\ promises' = [call \in DOMAIN promises |->
                       IF promises[call] = "pending" THEN "rejected" ELSE promises[call]]
    /\ UNCHANGED <<pipelineVars, worldVars, nextPingId, nextStatsId, nextFetchId, listeners>>

\* Mutant: the close handler stops the flush timer.
wsCloseStopsTimer ==
    /\ wsState \in {"connecting", "open"}
    /\ wsState' = "closed"
    /\ events' = <<Disconnected>>
    /\ wire' = <<>>
    /\ lastOp' = "close"
    /\ lastMsg' = NoMsg
    /\ NoRequest
    /\ flushInterval' = Undefined
    /\ timers' = EmptyMap
    /\ UNCHANGED <<timersCreated, nextEditId, writeBuffer, waitingEdits>>

wsClose ==
    /\ wsState \in {"connecting", "open"}
    /\ wsState' = "closed"
    /\ events' = <<Disconnected>>
    /\ wire' = <<>>
    /\ lastOp' = "close"
    /\ lastMsg' = NoMsg
    /\ NoRequest
    /\ UNCHANGED <<timerVars, nextEditId, writeBuffer, waitingEdits>>

(***************************************************************************)
(* writeChar(x, y, char, color, bgcolor) on the session s.                 *)
(***************************************************************************)
\* Mutant: the edit is put at the head of the buffer (unshift).
doWriteCharUnshift(s, x, y, char, color, bgcolor) ==
    LET id == s.nextEditId + 1
        edit == Write(x, y, char, id, color, bgcolor)
    IN  [nextEditId |-> id,
         writeBuffer |-> <<edit>> \o s.writeBuffer,
         waitingEdits |-> MapSet(s.waitingEdits, id, edit)]

doWriteChar(s, x, y, char, color, bgcolor) ==
    LET id == s.nextEditId + 1
        edit == Write(x, y, char, id, color, bgcolor)
    IN  [nextEditId |-> id,
         writeBuffer |-> Append(s.writeBuffer, edit),
         waitingEdits |-> MapSet(s.waitingEdits, id, edit)]

\* The call with the default color 0x000000 and bgcolor -1.
writeChar(x, y, char) ==
    \E s \in {doWriteChar(Session, x, y, char, 0, -1)} :
        /\ nextEditId < MaxEdits
        /\ nextEditId' = s.nextEditId
        /\ writeBuffer' = s.writeBuffer
        /\ waitingEdits' = s.waitingEdits
        /\ wire' = <<>>
        /\ events' = <<>>
        /\ lastOp' = "writeChar"
        /\ lastMsg' = NoMsg
        /\ lastCall' = [op |-> "writeChar", args |-> <<x, y, char>>, result |-> "none"]
        /\ UNCHANGED <<requestVars, worldVars>>
        /\ UNCHANGED <<wsState, timerVars>>

(***************************************************************************)
(* advancedSplit(str, noSurrog, noComb, norm) on a string, a sequence of   *)
(* UTF-16 code units; the result is a sequence of strings.                 *)
(***************************************************************************)
combLimit == 15

IsLowSurrogate(code) == code >= 56320 /\ code <= 57343

IsHighSurrogate(code) == code >= 55296 /\ code <= 56319

IsCombining(code) ==
    \/ code >= 768 /\ code <= 879
    \/ code >= 7616 /\ code <= 7679
    \/ code >= 8400 /\ code <= 8447
    \/ code >= 65056 /\ code <= 65071

QuestionMark == <<63>>

\* Mutant: a base character replaces the buffered unit instead of following it.
splitStepDropsBuffered(st, char, noSurrog, noComb, norm) ==
    IF IsLowSurrogate(char)
    THEN IF st.surrogMode
         THEN [st EXCEPT !.buffer = Append(@, char), !.surrogMode = FALSE, !.combCount = 0]
         ELSE [st EXCEPT !.buffer = <<>>, !.chars = Append(@, QuestionMark),
                         !.surrogMode = FALSE, !.combCount = 0]
    ELSE IF st.surrogMode
    THEN [st EXCEPT !.buffer = <<>>, !.chars = Append(@, QuestionMark), !.surrogMode = FALSE]
    ELSE IF ~noSurrog /\ IsHighSurrogate(char)
    THEN [st EXCEPT !.chars = IF st.charMode THEN Append(@, st.buffer) ELSE @,
                    !.charMode = TRUE, !.surrogMode = TRUE, !.buffer = <<char>>]
    ELSE IF ~norm /\ IsCombining(char)
    THEN IF ~noComb /\ st.charMode /\ st.combCount < combLimit
         THEN [st EXCEPT !.buffer = Append(@, char), !.combCount = @ + 1]
         ELSE st
    ELSE [st EXCEPT !.combCount = 0, !.charMode = TRUE, !.buffer = <<char>>]

\* Mutant: a low surrogate is a placeholder also after a high surrogate.
splitStepBreaksPair(st, char, noSurrog, noComb, norm) ==
    IF IsLowSurrogate(char)
    THEN [st EXCEPT !.buffer = <<>>, !.chars = Append(@, QuestionMark),
                    !.surrogMode = FALSE, !.combCount = 0]
    ELSE IF st.surrogMode
    THEN [st EXCEPT !.buffer = <<>>, !.chars = Append(@, QuestionMark), !.surrogMode = FALSE]
    ELSE IF ~noSurrog /\ IsHighSurrogate(char)
    THEN [st EXCEPT !.chars = IF st.charMode THEN Append(@, st.buffer) ELSE @,
                    !.charMode = TRUE, !.surrogMode = TRUE, !.buffer = <<char>>]
    ELSE IF ~norm /\ IsCombining(char)
    THEN IF ~noComb /\ st.charMode /\ st.combCount < combLimit
         THEN [st EXCEPT !.buffer = Append(@, char), !.combCount = @ + 1]
         ELSE st
    ELSE [st EXCEPT !.chars = IF st.charMode THEN Append(@, st.buffer) ELSE @,
                    !.combCount = 0, !.charMode = TRUE, !.buffer = <<char>>]

\* One iteration of the for loop over the code units.
splitStep(st, char, noSurrog, noComb, norm) ==
    IF IsLowSurrogate(char)
    THEN IF st.surrogMode
         THEN [st EXCEPT !.buffer = Append(@, char), !.surrogMode = FALSE, !.combCount = 0]
         ELSE [st EXCEPT !.buffer = <<>>, !.chars = Append(@, QuestionMark),
                         !.surrogMode = FALSE, !.combCount = 0]
    ELSE IF st.surrogMode
    THEN [st EXCEPT !.buffer = <<>>, !.chars = Append(@, QuestionMark), !.surrogMode = FALSE]
    ELSE IF ~noSurrog /\ IsHighSurrogate(char)
    THEN [st EXCEPT !.chars = IF st.charMode THEN Append(@, st.buffer) ELSE @,
                    !.charMode = TRUE, !.surrogMode = TRUE, !.buffer = <<char>>]
    ELSE IF ~norm /\ IsCombining(char)
    THEN IF ~noComb /\ st.charMode /\ st.combCount < combLimit
         THEN [st EXCEPT !.buffer = Append(@, char), !.combCount = @ + 1]
         ELSE st
    ELSE [st EXCEPT !.chars = IF st.charMode THEN Append(@, st.buffer) ELSE @,
                    !.combCount = 0, !.charMode = TRUE, !.buffer = <<char>>]

\* The for loop over str[lo..hi], left to right: the state after the left
\* half (the one element of the inner set) is the state the right half starts
\* from.  Halving the range keeps the evaluation depth logarithmic.
RECURSIVE splitLoop(_, _, _, _, _, _, _)
splitLoop(str, lo, hi, st, noSurrog, noComb, norm) ==
    IF lo > hi
    THEN st
    ELSE IF lo = hi
    THEN splitStep(st, str[lo], noSurrog, noComb, norm)
    ELSE LET mid == (lo + hi) \div 2
         IN  CHOOSE r \in {splitLoop(str, mid + 1, hi, left, noSurrog, noComb, norm) :
                              left \in {splitLoop(str, lo, mid, st, noSurrog, noComb, norm)}} : TRUE

advancedSplit(str, noSurrog, noComb, norm) ==
    LET st == splitLoop(str, 1, Len(str),
                  [chars |-> <<>>, buffer |-> <<>>, surrogMode |-> FALSE,
                   charMode |-> FALSE, combCount |-> 0],
                  noSurrog, noComb, norm)
    IN  IF st.buffer # <<>> THEN Append(st.chars, st.buffer) ELSE st.chars

(***************************************************************************)
(* writeText(x, y, text, color, bgcolor): one writeChar per unit, "\n"     *)
(* starts a new row.                                                       *)
(***************************************************************************)
NewLine == <<10>>

\* Mutant: a newline advances the row and leaves the column where it is.
writeTextStepNoReset(c, char, ix, color, bgcolor) ==
    IF char = NewLine
    THEN [c EXCEPT !.y = @ + 1]
    ELSE [c EXCEPT !.s = doWriteChar(c.s, c.x, c.y, char, color, bgcolor), !.x = @ + 1]

\* One iteration of the for loop over the split text; c carries the
\* cursor x, y and the session s.
writeTextStep(c, char, ix, color, bgcolor) ==
    IF char = NewLine
    THEN [c EXCEPT !.x = ix, !.y = @ + 1]
    ELSE [c EXCEPT !.s = doWriteChar(c.s, c.x, c.y, char, color, bgcolor), !.x = @ + 1]

\* The for loop over stext[lo..hi], left to right, halved as in splitLoop.
RECURSIVE writeTextLoop(_, _, _, _, _, _, _)
writeTextLoop(stext, lo, hi, c, ix, color, bgcolor) ==
    IF lo > hi
    THEN c
    ELSE IF lo = hi
    THEN writeTextStep(c, stext[lo], ix, color, bgcolor)
    ELSE LET mid == (lo + hi) \div 2
         IN  CHOOSE r \in {writeTextLoop(stext, mid + 1, hi, left, ix, color, bgcolor) :
                              left \in {writeTextLoop(stext, lo, mid, c, ix, color, bgcolor)}} : TRUE

doWriteText(s, x, y, text, color, bgcolor) ==
    LET stext == advancedSplit(text, FALSE, FALSE, FALSE)
    IN  writeTextLoop(stext, 1, Len(stext), [x |-> x, y |-> y, s |-> s],
                      x, color, bgcolor).s

\* The call with the default color 0x000000 and bgcolor -1.
writeText(x, y, text) ==
    \E s \in {doWriteText(Session, x, y, text, 0, -1)} :
        /\ s.nextEditId <= MaxBulkEdits
        /\ nextEditId' = s.nextEditId
        /\ writeBuffer' = s.writeBuffer
        /\ waitingEdits' = s.waitingEdits
        /\ wire' = <<>>
        /\ events' = <<>>
        /\ lastOp' = "writeText"
        /\ lastMsg' = NoMsg
        /\ lastCall' = [op |-> "writeText", args |-> <<x, y, text>>, result |-> "none"]
        /\ UNCHANGED <<requestVars, worldVars>>
        /\ UNCHANGED <<wsState, timerVars>>

(***************************************************************************)
(* flushWrites(): Array.splice(0, 512) removes and returns the first 512   *)
(* elements (all of them when there are fewer).                            *)
(***************************************************************************)
FlushCap == 512

\* Mutant: the whole buffer is sent, whatever its length.
spliceTakenAll(buf, n) == buf

spliceTaken(buf, n) == SubSeq(buf, 1, Min(n, Len(buf)))

spliceRest(buf, n) == SubSeq(buf, Min(n, Len(buf)) + 1, Len(buf))

flushWrites(caller) ==
    /\ lastOp' = caller
    /\ lastMsg' = NoMsg
    /\ NoRequest
    /\ events' = <<>>
    /\ IF Len(writeBuffer) = 0
       THEN /\ wire' = <<>>
            /\ UNCHANGED writeBuffer
       ELSE LET batch == spliceTaken(writeBuffer, FlushCap)
            IN  /\ writeBuffer' = spliceRest(writeBuffer, FlushCap)
                /\ wire' = <<Frame("write", batch)>>
    /\ UNCHANGED <<wsState, timerVars, nextEditId, waitingEdits>>

\* A direct call of the public method.
FlushCall == flushWrites("flushWrites")

\* A tick of the interval timer armed by setFlushInterval.
FlushTimer == \E handle \in DOMAIN timers : flushWrites("flushTimer")

\* A call of the public method setFlushInterval.
setFlushInterval(interval) ==
    \E t \in {doSetFlushInterval(Timers, interval)} :
        /\ timersCreated < MaxTimers
        /\ flushInterval' = t.flushInterval
        /\ timers' = t.timers
        /\ timersCreated' = t.timersCreated
        /\ wire' = <<>>
        /\ events' = <<>>
        /\ lastOp' = "setFlushInterval"
        /\ lastMsg' = NoMsg
        /\ lastCall' = [op |-> "setFlushInterval", args |-> <<interval>>, result |-> "none"]
        /\ UNCHANGED <<wsState, nextEditId, writeBuffer, waitingEdits, requestVars, worldVars>>

(***************************************************************************)
(* clearWriteBuffer().                                                     *)
(***************************************************************************)
\* Mutant: only the waiting-edit table is cleared.
clearWriteBufferKeepsBuffer ==
    /\ waitingEdits' = EmptyMap
    /\ events' = <<WriteBufferEmpty>>
    /\ wire' = <<>>
    /\ lastOp' = "clearWriteBuffer"
    /\ lastMsg' = NoMsg
    /\ NoRequest
    /\ UNCHANGED <<wsState, timerVars, nextEditId, writeBuffer>>

\* Mutant: the id counter is reset with the buffers.
clearWriteBufferResetsIds ==
    /\ waitingEdits' = EmptyMap
    /\ writeBuffer' = <<>>
    /\ nextEditId' = 0
    /\ events' = <<WriteBufferEmpty>>
    /\ wire' = <<>>
    /\ lastOp' = "clearWriteBuffer"
    /\ lastMsg' = NoMsg
    /\ NoRequest
    /\ UNCHANGED <<wsState, timerVars>>

clearWriteBuffer ==
    /\ waitingEdits' = EmptyMap
    /\ writeBuffer' = <<>>
    /\ events' = <<WriteBufferEmpty>>
    /\ wire' = <<>>
    /\ lastOp' = "clearWriteBuffer"
    /\ lastMsg' = NoMsg
    /\ NoRequest
    /\ UNCHANGED <<wsState, timerVars, nextEditId>>

(***************************************************************************)
(* The "message_write" handler.  data.accepted is an array of ids,         *)
(* data.rejected an object id -> reason code; for..in visits its integer   *)
(* keys in ascending order.                                                *)
(***************************************************************************)
\* Mutant: reason code 4 is taken for a transient rejection.
PermanentOnlyOne(rej) == rej = 1

Permanent(rej) == rej = 1 \/ rej = 4

MinKey(keys) == CHOOSE k \in keys : \A j \in keys : k <= j

\* Mutant: an accepted edit is reported and left in the waiting-edit table.
RECURSIVE acceptedLoopNoDelete(_, _, _)
acceptedLoopNoDelete(accepted, j, st) ==
    IF j > Len(accepted)
    THEN st
    ELSE acceptedLoopNoDelete(accepted, j + 1,
             [st EXCEPT !.events = Append(@, WriteResult(accepted[j], "Accepted"))])

\* Mutant: no accepted result is emitted.
RECURSIVE acceptedLoopNoEvent(_, _, _)
acceptedLoopNoEvent(accepted, j, st) ==
    IF j > Len(accepted)
    THEN st
    ELSE acceptedLoopNoEvent(accepted, j + 1,
             [st EXCEPT !.waiting = MapDelete(@, accepted[j])])

\* for (var j = 0; j < data.accepted.length; j++) { delete; emit Accepted }
RECURSIVE acceptedLoop(_, _, _)
acceptedLoop(accepted, j, st) ==
    IF j > Len(accepted)
    THEN st
    ELSE acceptedLoop(accepted, j + 1,
             [st EXCEPT !.waiting = MapDelete(@, accepted[j]),
                        !.events = Append(@, WriteResult(accepted[j], "Accepted"))])

\* Mutant: the "if (!edit) continue" is missing, an absent edit is queued.
rejectedStepQueuesAbsent(i, rej, st) ==
    IF Permanent(rej)
    THEN [st EXCEPT !.waiting = MapDelete(@, i),
                    !.events = Append(@, WriteResult(i, "Rejected"))]
    ELSE [st EXCEPT !.events = Append(@, WriteResult(i, "Ratelimited")),
                    !.buffer = Append(@, IF i \in DOMAIN st.waiting
                                         THEN st.waiting[i]
                                         ELSE Write(0, 0, <<>>, i, 0, -1))]

\* Mutant: the rate-limited edit is put at the head of the buffer (unshift).
rejectedStepUnshift(i, rej, st) ==
    IF Permanent(rej)
    THEN [st EXCEPT !.waiting = MapDelete(@, i),
                    !.events = Append(@, WriteResult(i, "Rejected"))]
    ELSE IF i \notin DOMAIN st.waiting
         THEN [st EXCEPT !.events = Append(@, WriteResult(i, "Ratelimited"))]
         ELSE [st EXCEPT !.events = Append(@, WriteResult(i, "Ratelimited")),
                         !.buffer = <<st.waiting[i]>> \o @]

\* Mutant: a rate-limited edit is reported and not put back in the buffer.
rejectedStepNoRequeue(i, rej, st) ==
    IF Permanent(rej)
    THEN [st EXCEPT !.waiting = MapDelete(@, i),
                    !.events = Append(@, WriteResult(i, "Rejected"))]
    ELSE [st EXCEPT !.events = Append(@, WriteResult(i, "Ratelimited"))]

\* Mutant: a rate-limited edit is dropped from the waiting-edit table.
rejectedStepForgets(i, rej, st) ==
    IF Permanent(rej)
    THEN [st EXCEPT !.waiting = MapDelete(@, i),
                    !.events = Append(@, WriteResult(i, "Rejected"))]
    ELSE [st EXCEPT !.waiting = MapDelete(@, i),
                    !.events = Append(@, WriteResult(i, "Ratelimited"))]

\* Mutant: a rate-limited edit is put back in the buffer and dropped from the
\* waiting-edit table.
rejectedStepRequeuesUntracked(i, rej, st) ==
    IF Permanent(rej)
    THEN [st EXCEPT !.waiting = MapDelete(@, i),
                    !.events = Append(@, WriteResult(i, "Rejected"))]
    ELSE IF i \notin DOMAIN st.waiting
         THEN [st EXCEPT !.events = Append(@, WriteResult(i, "Ratelimited"))]
         ELSE [st EXCEPT !.events = Append(@, WriteResult(i, "Ratelimited")),
                         !.buffer = Append(@, st.waiting[i]),
                         !.waiting = MapDelete(@, i)]

\* Mutant: a rate-limited edit is put back in the buffer twice.
rejectedStepRequeuesTwice(i, rej, st) ==
    IF Permanent(rej)
    THEN [st EXCEPT !.waiting = MapDelete(@, i),
                    !.events = Append(@, WriteResult(i, "Rejected"))]
    ELSE IF i \notin DOMAIN st.waiting
         THEN [st EXCEPT !.events = Append(@, WriteResult(i, "Ratelimited"))]
         ELSE [st EXCEPT !.events = Append(@, WriteResult(i, "Ratelimited")),
                         !.buffer = Append(Append(@, st.waiting[i]), st.waiting[i])]

\* One iteration of for (var is in data.rejected).
rejectedStep(i, rej, st) ==
    IF Permanent(rej)
    THEN [st EXCEPT !.waiting = MapDelete(@, i),
                    !.events = Append(@, WriteResult(i, "Rejected"))]
    ELSE IF i \notin DOMAIN st.waiting
         THEN [st EXCEPT !.events = Append(@, WriteResult(i, "Ratelimited"))]
         ELSE [st EXCEPT !.events = Append(@, WriteResult(i, "Ratelimited")),
                         !.buffer = Append(@, st.waiting[i])]

RECURSIVE rejectedLoop(_, _, _)
rejectedLoop(rejected, keys, st) ==
    IF keys = {}
    THEN st
    ELSE LET i == MinKey(keys)
         IN  rejectedLoop(rejected, keys \ {i}, rejectedStep(i, rejected[i], st))

\* Mutant: the check forgets the outgoing buffer.
emptyCheckWaitingOnly(st) ==
    IF st.waiting = EmptyMap
    THEN [st EXCEPT !.events = Append(@, WriteBufferEmpty)]
    ELSE st

\* if (waitingEdits.size === 0 && writeBuffer.length === 0) emit writeBufferEmpty
emptyCheck(st) ==
    IF st.waiting = EmptyMap /\ Len(st.buffer) = 0
    THEN [st EXCEPT !.events = Append(@, WriteBufferEmpty)]
    ELSE st

onMessageWrite(accepted, rejected) ==
    emptyCheck(
        rejectedLoop(rejected, DOMAIN rejected,
            acceptedLoop(accepted, 1,
                [waiting |-> waitingEdits, buffer |-> writeBuffer, events |-> <<>>])))

message_write(accepted, rejected) ==
    \E st \in {onMessageWrite(accepted, rejected)} :
        /\ wsState = "open"
        /\ waitingEdits' = st.waiting
        /\ writeBuffer' = st.buffer
        /\ events' = st.events
        /\ wire' = <<>>
        /\ lastOp' = "message_write"
        /\ lastMsg' = MessageWrite(accepted, rejected)
        /\ NoRequest
        /\ UNCHANGED <<wsState, timerVars, nextEditId>>

(***************************************************************************)
(* The write frames the socket may carry: answers to delivered edits, and  *)
(* duplicated or stale answers, or answers naming ids never transmitted.   *)
(***************************************************************************)
Accepteds == UNION {[1..n -> Ids] : n \in AcceptedLens}

Rejecteds == UNION {[D -> Codes] : D \in {S \in SUBSET Ids : Cardinality(S) \in RejectedSizes}}

ServerWrite ==
    \E accepted \in Accepteds, rejected \in Rejecteds :
        /\ message_write(accepted, rejected)
        /\ Len(writeBuffer') <= MaxBuf

\* Texts of plain letters, 88 and 512 characters long.
BulkLens == {88, 512}

BulkTexts == {[k \in 1..n |-> 97] : n \in BulkLens}

CallText == \E text \in BulkTexts : writeText(0, 0, text)

Call == \E x \in Xs, y \in Ys, char \in Chars : writeChar(x, y, char)

(***************************************************************************)
(* A server that keeps to the protocol: it answers edits that were         *)
(* delivered to it, each delivered copy once, and it rate-limits at most   *)
(* MaxRL times before it settles an edit for good.                         *)
(***************************************************************************)
RECURSIVE Ascending(_)
Ascending(S) == IF S = {} THEN <<>> ELSE <<MinKey(S)>> \o Ascending(S \ {MinKey(S)})

ServerAnswer ==
    \E A \in SUBSET inflight, R \in SUBSET inflight :
        /\ A \cap R = {}
        /\ A \cup R # {}
        /\ \E rejected \in [R -> Codes] :
               /\ rlCount + Cardinality({i \in R : ~Permanent(rejected[i])}) <= MaxRL
               /\ message_write(Ascending(A), rejected)

\* flushWrites called by the user once the transport is open.
FlushOpen == wsState = "open" /\ FlushCall

(***************************************************************************)
(* Correlated requests: ping(), stats(), fetchTiles().  Each call that     *)
(* takes an id registers an onmsg closure for its message kind, then hands *)
(* its frame to the socket.                                                *)
(***************************************************************************)
\* ws.send throws while the socket is still connecting; the exception leaves
\* the promise executor and rejects the promise.
SendThrows == wsState = "connecting"

\* The calls that have taken an id so far.
CallsMade == nextPingId + nextStatsId + nextFetchId

\* resolve() or reject(): only a pending promise settles.
Settle(ps, call, outcome) ==
    IF call \in DOMAIN ps /\ ps[call] = "pending"
    THEN [ps EXCEPT ![call] = outcome]
    ELSE ps

\* this.off(event, onmsg): the closure of the call with this id is removed.
Off(ls, id) == SelectSeq(ls, LAMBDA l : l # id)

\* Mutant: the closure stays registered after its match.
onmsgStays(kind, id, dataId, st) ==
    IF dataId # id
    THEN st
    ELSE [st EXCEPT !.promises = Settle(@, <<kind, id>>, "resolved")]

\* Mutant: the closure does not look at the id of the response.
onmsgAnyId(kind, id, dataId, st) ==
    [listeners |-> [st.listeners EXCEPT ![kind] = Off(@, id)],
     promises |-> Settle(st.promises, <<kind, id>>, "resolved")]

\* The onmsg closure of the call of this kind that took this id.
onmsg(kind, id, dataId, st) ==
    IF dataId # id
    THEN st
    ELSE [listeners |-> [st.listeners EXCEPT ![kind] = Off(@, id)],
          promises |-> Settle(st.promises, <<kind, id>>, "resolved")]

\* emit("message_" + kind, data): the closures registered when the emit
\* starts are called in registration order.
RECURSIVE emitToListeners(_, _, _, _, _)
emitToListeners(kind, snapshot, k, dataId, st) ==
    IF k > Len(snapshot)
    THEN st
    ELSE emitToListeners(kind, snapshot, k + 1, dataId,
                         onmsg(kind, snapshot[k], dataId, st))

Requests == [listeners |-> listeners, promises |-> promises]

\* new Promise(executor) of a call that took an id and transmitted.
registerCall(kind, id) ==
    /\ listeners' = [listeners EXCEPT ![kind] = Append(@, id)]
    /\ promises' = MapSet(promises, <<kind, id>>,
                          IF SendThrows THEN "rejected" ELSE "pending")
    /\ lastCall' = [op |-> kind, args |-> <<>>,
                    result |-> IF SendThrows THEN "rejected" ELSE "pending"]

ping ==
    /\ CallsMade < MaxReq
    /\ nextPingId' = nextPingId + 1
    /\ registerCall("ping", nextPingId')
    /\ wire' = <<Request("ping", nextPingId')>>
    /\ events' = <<>>
    /\ lastOp' = "ping"
    /\ lastMsg' = NoMsg
    /\ UNCHANGED <<wsState, pipelineVars, worldVars, nextStatsId, nextFetchId>>

stats ==
    /\ CallsMade < MaxReq
    /\ nextStatsId' = nextStatsId + 1
    /\ registerCall("stats", nextStatsId')
    /\ wire' = <<Request("stats", nextStatsId')>>
    /\ events' = <<>>
    /\ lastOp' = "stats"
    /\ lastMsg' = NoMsg
    /\ UNCHANGED <<wsState, pipelineVars, worldVars, nextPingId, nextFetchId>>

FetchLimit == 2500

\* if ((maxX - minX) * (maxY - minY) > 2500) return reject(...)
tooManyTiles(minX, minY, maxX, maxY) ==
    (maxX - minX) * (maxY - minY) > FetchLimit

\* Mutant: the id is taken before the area is checked.
fetchRejectedTakesId ==
    /\ nextFetchId' = nextFetchId + 1
    /\ UNCHANGED <<listeners, promises>>
    /\ wire' = <<>>

\* The early return of fetchTiles: reject and nothing else.
fetchRejected ==
    /\ UNCHANGED <<nextFetchId, listeners, promises>>
    /\ wire' = <<>>

fetchTiles(minX, minY, maxX, maxY) ==
    /\ IF tooManyTiles(minX, minY, maxX, maxY)
       THEN /\ fetchRejected
            /\ lastCall' = [op |-> "fetchTiles", args |-> <<minX, minY, maxX, maxY>>,
                            result |-> "rejected"]
       ELSE /\ CallsMade < MaxReq
            /\ nextFetchId' = nextFetchId + 1
            /\ listeners' = [listeners EXCEPT !["fetch"] = Append(@, nextFetchId)]
            /\ promises' = MapSet(promises, <<"fetch", nextFetchId>>,
                                  IF SendThrows THEN "rejected" ELSE "pending")
            /\ wire' = <<FetchRequest(nextFetchId, minX, minY, maxX, maxY)>>
            /\ lastCall' = [op |-> "fetchTiles", args |-> <<minX, minY, maxX, maxY>>,
                            result |-> IF SendThrows THEN "rejected" ELSE "pending"]
    /\ events' = <<>>
    /\ lastOp' = "fetchTiles"
    /\ lastMsg' = NoMsg
    /\ UNCHANGED <<wsState, pipelineVars, worldVars, nextPingId, nextStatsId>>

\* A ping or stats message arrives: emit("message_ping" / "message_stats", data).
message_reply(kind, dataId) ==
    \E st \in {emitToListeners(kind, listeners[kind], 1, dataId, Requests)} :
        /\ wsState = "open"
        /\ listeners' = st.listeners
        /\ promises' = st.promises
        /\ wire' = <<>>
        /\ events' = <<>>
        /\ lastOp' = "message_" \o kind
        /\ lastMsg' = Request(kind, dataId)
        /\ lastCall' = NoCall
        /\ UNCHANGED <<wsState, pipelineVars, worldVars, nextPingId, nextStatsId, nextFetchId>>

message_ping(dataId) == message_reply("ping", dataId)

message_stats(dataId) == message_reply("stats", dataId)

(***************************************************************************)
(* The tile cache.  A protocol key, the string "tileY,tileX", is the pair  *)
(* of its two numbers in the order they are written; so is a cache key,    *)
(* the string the template `${tileX},${tileY}` builds.                     *)
(***************************************************************************)
\* coords.split(",") and Number.parseInt of each part.
ParseCoords(coords) == [tileX |-> coords[2], tileY |-> coords[1]]

\* `${tileX},${tileY}`
TileKey(tileX, tileY) == <<tileX, tileY>>

\* JavaScript null: a blank tile's payload, an unset protection, no link.
Null == [null |-> TRUE]

\* A protection level 0, 1 or 2 (type Protection = null | 0 | 1 | 2).
Level(n) == [level |-> n]

TileCells == 128

\* new Array(128).fill(v)
Filled(v) == [k \in 1..TileCells |-> v]

\* arr[i] of a JavaScript array: undefined beyond its length.
At(arr, i) == IF i + 1 \in DOMAIN arr THEN Some(arr[i + 1]) ELSE Undefined

\* arr[i] = v, for i < arr.length or i = arr.length.
SetAt(arr, i, v) == IF i < Len(arr) THEN [arr EXCEPT ![i + 1] = v] ELSE Append(arr, v)

\* b64table.indexOf(char), char a code unit: A-Z, a-z, 0-9, "+", "/"; -1 for any other.
b64index(char) ==
    IF char >= 65 /\ char <= 90 THEN char - 65
    ELSE IF char >= 97 /\ char <= 122 THEN char - 97 + 26
    ELSE IF char >= 48 /\ char <= 57 THEN char - 48 + 52
    ELSE IF char = 43 THEN 62
    ELSE IF char = 47 THEN 63
    ELSE -1

unshiftProtection(value) ==
    IF value = 1 THEN Level(0)
    ELSE IF value = 2 THEN Level(1)
    ELSE IF value = 3 THEN Level(2)
    ELSE Null

\* byte >> n & 3: the shift is the floor of the division by 2^n, & 3 the
\* non-negative remainder modulo 4, also for the byte -1.
ShiftAnd3(byte, n) == (byte \div (2 ^ n)) % 4

\* One iteration of the loop of decodeProtection; data is
\* tile.properties.char.substring(1), i counts from 0.
decodeProtectionStep(data, i, output) ==
    LET byte == b64index(data[i + 1])
        o1 == SetAt(output, i * 3, unshiftProtection(ShiftAnd3(byte, 4)))
        o2 == SetAt(o1, i * 3 + 1, unshiftProtection(ShiftAnd3(byte, 2)))
    IN  SetAt(o2, i * 3 + 2, unshiftProtection(ShiftAnd3(byte, 0)))

\* for (var i = lo; i <= hi; i++), halved as in splitLoop.
RECURSIVE decodeProtectionLoop(_, _, _, _)
decodeProtectionLoop(data, lo, hi, output) ==
    IF lo > hi
    THEN output
    ELSE IF lo = hi
    THEN decodeProtectionStep(data, lo, output)
    ELSE LET mid == (lo + hi) \div 2
         IN  CHOOSE r \in {decodeProtectionLoop(data, mid + 1, hi, left) :
                              left \in {decodeProtectionLoop(data, lo, mid, output)}} : TRUE

\* Mutant: the header character is not skipped.
decodeProtectionKeepsHeader(tile) ==
    IF tile.properties.char = Undefined \/ tile.properties.char = Some(<<>>)
    THEN Filled(Null)
    ELSE decodeProtectionLoop(tile.properties.char[1], 0, Len(tile.properties.char[1]) - 1, Filled(Null))

decodeProtection(tile) ==
    IF tile.properties.char = Undefined \/ tile.properties.char = Some(<<>>)
    THEN Filled(Null)
    ELSE LET char == tile.properties.char[1]
         IN  decodeProtectionLoop(SubSeq(char, 2, Len(char)), 0, Len(char) - 2, Filled(Null))

\* The link of one entry of cell_props: the url, or the pair of tile coordinates.
LinkOf(link) ==
    IF link.type = "url" THEN [url |-> link.url] ELSE [coords |-> <<link.link_tileX, link.link_tileY>>]

\* The two loops over data.properties.cell_props: each <<cy, cx>> it has sets
\* the link of cell cy * 16 + cx.
decodeLinks(cell_props) ==
    [k \in 1..TileCells |->
        IF \E c \in DOMAIN cell_props : c[1] * 16 + c[2] = k - 1
        THEN LinkOf(cell_props[CHOOSE c \in DOMAIN cell_props : c[1] * 16 + c[2] = k - 1].link)
        ELSE Null]

Black == 0

NoBackground == -1

Space == <<32>>

\* Mutant: a blank tile's content is left empty.
TileBlankEmpty(x, y, data) ==
    IF data = Null
    THEN [x |-> x, y |-> y,
          content |-> <<>>, color |-> Filled(Black), bcolor |-> Filled(NoBackground),
          writability |-> Null, protections |-> Filled(Null), links |-> Filled(Null)]
    ELSE [x |-> x, y |-> y,
          content |-> advancedSplit(data.content, FALSE, FALSE, FALSE),
          color |-> IF data.properties.color = Undefined
                    THEN Filled(Black) ELSE data.properties.color[1],
          bcolor |-> IF data.properties.bcolor = Undefined
                     THEN Filled(NoBackground) ELSE data.properties.bcolor[1],
          writability |-> data.properties.writability,
          protections |-> decodeProtection(data),
          links |-> IF data.properties.cell_props = Undefined
                    THEN Filled(Null) ELSE decodeLinks(data.properties.cell_props[1])]

\* new Tile(x, y, data): data is null, or has content (a string) and
\* properties (writability; color, bcolor, char, cell_props or undefined).
Tile(x, y, data) ==
    IF data = Null
    THEN [x |-> x, y |-> y,
          content |-> Filled(Space), color |-> Filled(Black), bcolor |-> Filled(NoBackground),
          writability |-> Null, protections |-> Filled(Null), links |-> Filled(Null)]
    ELSE [x |-> x, y |-> y,
          content |-> advancedSplit(data.content, FALSE, FALSE, FALSE),
          color |-> IF data.properties.color = Undefined
                    THEN Filled(Black) ELSE data.properties.color[1],
          bcolor |-> IF data.properties.bcolor = Undefined
                     THEN Filled(NoBackground) ELSE data.properties.bcolor[1],
          writability |-> data.properties.writability,
          protections |-> decodeProtection(data),
          links |-> IF data.properties.cell_props = Undefined
                    THEN Filled(Null) ELSE decodeLinks(data.properties.cell_props[1])]

\* Mutant: the cell index is taken one too far.
TileGetCharNextCell(tile, x, y) ==
    LET i == y * 16 + x + 1
        prot == tile.protections[i + 1]
    IN  [char |-> At(tile.content, i),
         color |-> At(tile.color, i),
         bgColor |-> At(tile.bcolor, i),
         protection |-> IF prot = Null THEN tile.writability ELSE prot,
         link |-> tile.links[i + 1]]

\* Tile.getChar(x, y), for 0 <= x < 16 and 0 <= y < 8.
TileGetChar(tile, x, y) ==
    LET i == y * 16 + x
        prot == tile.protections[i + 1]
    IN  [char |-> At(tile.content, i),
         color |-> At(tile.color, i),
         bgColor |-> At(tile.bcolor, i),
         protection |-> IF prot = Null THEN tile.writability ELSE prot,
         link |-> tile.links[i + 1]]

\* Mutant: the tile is found by a division that rounds toward zero, the
\* offsets are the non-negative remainders.
coordsCharToTileTruncating(x, y) ==
    << IF x >= 0 THEN x \div 16 ELSE -((-x) \div 16),
       IF y >= 0 THEN y \div 8 ELSE -((-y) \div 8),
       x % 16, y % 8 >>

\* utils.coordsCharToTile(x, y)
coordsCharToTile(x, y) ==
    << x \div 16, y \div 8, x - (x \div 16) * 16, y - (y \div 8) * 8 >>

\* Bot.getChar(x, y)
getChar(x, y) ==
    LET t == coordsCharToTile(x, y)
        key == TileKey(t[1], t[2])
    IN  IF key \notin DOMAIN tiles THEN Null ELSE TileGetChar(tiles[key], t[3], t[4])

\* Mutant: the cache key is built row first.
cacheTileRowFirst(ts, coords, data) ==
    LET n == ParseCoords(coords)
    IN  MapSet(ts, TileKey(n.tileY, n.tileX), Tile(n.tileX, n.tileY, data))

\* Mutant: a tile that is in the cache already is kept.
cacheTileKeepsOld(ts, coords, data) ==
    LET n == ParseCoords(coords)
    IN  IF TileKey(n.tileX, n.tileY) \in DOMAIN ts
        THEN ts
        ELSE MapSet(ts, TileKey(n.tileX, n.tileY), Tile(n.tileX, n.tileY, data))

\* One iteration of for (var coords in data.tiles): this.tiles.set(...).
cacheTile(ts, coords, data) ==
    LET n == ParseCoords(coords)
    IN  MapSet(ts, TileKey(n.tileX, n.tileY), Tile(n.tileX, n.tileY, data))

\* for (var coords in data.tiles), over the keys still to visit.
RECURSIVE cacheLoop(_, _, _)
cacheLoop(payload, keys, ts) ==
    IF keys = {}
    THEN ts
    ELSE LET coords == CHOOSE c \in keys : TRUE
         IN  cacheLoop(payload, keys \ {coords}, cacheTile(ts, coords, payload[coords]))

MessageFetch(request, payload) == [kind |-> "fetch", request |-> request, tiles |-> payload]

\* A fetch message arrives: the cache handler of the constructor runs, then
\* the onmsg closures of the fetchTiles calls.
message_fetch(request, payload) ==
    \E st \in {emitToListeners("fetch", listeners["fetch"], 1, request, Requests)} :
        /\ wsState = "open"
        /\ tiles' = cacheLoop(payload, DOMAIN payload, tiles)
        /\ listeners' = st.listeners
        /\ promises' = st.promises
        /\ wire' = <<>>
        /\ events' = <<>>
        /\ lastOp' = "message_fetch"
        /\ lastMsg' = MessageFetch(request, payload)
        /\ lastCall' = NoCall
        /\ UNCHANGED <<wsState, pipelineVars, areaVars, channelId, chatId, userCount, guestCursors,
                       nextPingId, nextStatsId, nextFetchId>>

MessageTileUpdate(channel, payload) == [kind |-> "tileUpdate", channel |-> channel, tiles |-> payload]

TileUpdate(channel, evtTiles) ==
    [name |-> "tileUpdate", id |-> 0, state |-> "none", channel |-> channel, tiles |-> evtTiles]

\* Mutant: the event's map keeps only the tile visited last.
updateTileKeepsLast(st, coords, data) ==
    LET n == ParseCoords(coords)
        tile == Tile(n.tileX, n.tileY, data)
    IN  [tiles |-> MapSet(st.tiles, TileKey(n.tileX, n.tileY), tile),
         evtTiles |-> MapSet(EmptyMap, TileKey(n.tileX, n.tileY), tile)]

\* One iteration of the loop of the message_tileUpdate handler.
updateTile(st, coords, data) ==
    LET n == ParseCoords(coords)
        tile == Tile(n.tileX, n.tileY, data)
    IN  [tiles |-> MapSet(st.tiles, TileKey(n.tileX, n.tileY), tile),
         evtTiles |-> MapSet(st.evtTiles, TileKey(n.tileX, n.tileY), tile)]

RECURSIVE updateLoop(_, _, _)
updateLoop(payload, keys, st) ==
    IF keys = {}
    THEN st
    ELSE LET coords == CHOOSE c \in keys : TRUE
         IN  updateLoop(payload, keys \ {coords}, updateTile(st, coords, payload[coords]))

message_tileUpdate(channel, payload) ==
    \E st \in {updateLoop(payload, DOMAIN payload, [tiles |-> tiles, evtTiles |-> EmptyMap])} :
        /\ wsState = "open"
        /\ tiles' = st.tiles
        /\ events' = <<TileUpdate(channel, st.evtTiles)>>
        /\ wire' = <<>>
        /\ lastOp' = "message_tileUpdate"
        /\ lastMsg' = MessageTileUpdate(channel, payload)
        /\ lastCall' = NoCall
        /\ UNCHANGED <<wsState, pipelineVars, areaVars, requestVars, channelId, chatId, userCount, guestCursors>>

(***************************************************************************)
(* The channel message.  The connected event records what a listener that  *)
(* reads channelId, chatId and userCount during the emit gets.             *)
(***************************************************************************)
MessageChannel(sender, id, initial_user_count) ==
    [kind |-> "channel", sender |-> sender, id |-> id,
     initial_user_count |-> initial_user_count]

Connected(st) ==
    [name |-> "connected", id |-> 0, state |-> "none",
     seen |-> <<st.channelId, st.chatId, st.userCount>>]

\* Mutant: the event is emitted before the fields are assigned.
channelHandlerEmitsFirst(data, st) ==
    LET st1 == [st EXCEPT !.events = Append(@, Connected(st))]
    IN  [st1 EXCEPT !.channelId = Some(data.sender), !.chatId = Some(data.id),
                    !.userCount = Some(data.initial_user_count)]

\* The message_channel handler: three assignments, then the emit.
channelHandler(data, st) ==
    LET st1 == [st EXCEPT !.channelId = Some(data.sender), !.chatId = Some(data.id),
                          !.userCount = Some(data.initial_user_count)]
    IN  [st1 EXCEPT !.events = Append(@, Connected(st1))]

message_channel(sender, id, initial_user_count) ==
    \E st \in {channelHandler(MessageChannel(sender, id, initial_user_count),
                              [channelId |-> channelId, chatId |-> chatId,
                               userCount |-> userCount, events |-> <<>>])} :
        /\ wsState = "open"
        /\ channelId' = st.channelId
        /\ chatId' = st.chatId
        /\ userCount' = st.userCount
        /\ events' = st.events
        /\ wire' = <<>>
        /\ lastOp' = "message_channel"
        /\ lastMsg' = MessageChannel(sender, id, initial_user_count)
        /\ lastCall' = NoCall
        /\ UNCHANGED <<wsState, pipelineVars, areaVars, requestVars, tiles, guestCursors>>

MessageUserCount(count) == [kind |-> "user_count", count |-> count]

UserCountUpdate(old, count) ==
    [name |-> "userCountUpdate", id |-> 0, state |-> "none", old |-> old, count |-> count]

message_user_count(count) ==
    /\ wsState = "open"
    /\ userCount' = Some(count)
    /\ events' = <<UserCountUpdate(userCount, count)>>
    /\ wire' = <<>>
    /\ lastOp' = "message_user_count"
    /\ lastMsg' = MessageUserCount(count)
    /\ lastCall' = NoCall
    /\ UNCHANGED <<wsState, pipelineVars, areaVars, requestVars, tiles, channelId, chatId, guestCursors>>

(***************************************************************************)
(* The cursor message and the guest-cursor table.                          *)
(***************************************************************************)
\* utils.coordsTileToChar(tileX, tileY, charX, charY)
coordsTileToChar(tileX, tileY, charX, charY) == <<tileX * 16 + charX, tileY * 8 + charY>>

\* hidden is TRUE or absent (FALSE); position is a record or absent (Undefined).
MessageCursor(channel, hidden, position) ==
    [kind |-> "cursor", channel |-> channel, hidden |-> hidden, position |-> position]

GuestCursor(channel, hidden, coords) ==
    [name |-> "guestCursor", id |-> 0, state |-> "none",
     channel |-> channel, hidden |-> hidden, coords |-> coords]

\* Mutant: a cursor message of the session's own channel is treated like any other.
cursorHandlerNoOwnCheck(data, own, st) ==
    IF data.hidden
    THEN [st EXCEPT !.events = Append(@, GuestCursor(data.channel, TRUE, <<>>)),
                    !.guestCursors = MapDelete(@, data.channel)]
    ELSE IF data.position = Undefined
    THEN st
    ELSE LET pos == data.position[1]
             xy == coordsTileToChar(pos.tileX, pos.tileY, pos.charX, pos.charY)
         IN  [st EXCEPT !.events = Append(@, GuestCursor(data.channel, FALSE, xy)),
                        !.guestCursors = MapSet(@, data.channel, xy)]

\* The message_cursor handler; own is this.channelId.  A message that is not
\* hidden and has no position makes the handler throw before it does anything.
cursorHandler(data, own, st) ==
    IF Some(data.channel) = own
    THEN st
    ELSE IF data.hidden
    THEN [st EXCEPT !.events = Append(@, GuestCursor(data.channel, TRUE, <<>>)),
                    !.guestCursors = MapDelete(@, data.channel)]
    ELSE IF data.position = Undefined
    THEN st
    ELSE LET pos == data.position[1]
             xy == coordsTileToChar(pos.tileX, pos.tileY, pos.charX, pos.charY)
         IN  [st EXCEPT !.events = Append(@, GuestCursor(data.channel, FALSE, xy)),
                        !.guestCursors = MapSet(@, data.channel, xy)]

message_cursor(channel, hidden, position) ==
    \E st \in {cursorHandler(MessageCursor(channel, hidden, position), channelId,
                             [guestCursors |-> guestCursors, events |-> <<>>])} :
        /\ wsState = "open"
        /\ guestCursors' = st.guestCursors
        /\ events' = st.events
        /\ wire' = <<>>
        /\ lastOp' = "message_cursor"
        /\ lastMsg' = MessageCursor(channel, hidden, position)
        /\ lastCall' = NoCall
        /\ UNCHANGED <<wsState, pipelineVars, areaVars, requestVars, tiles, channelId, chatId, userCount>>

(***************************************************************************)
(* clearArea and protect.  Both are async functions with the same loops:   *)
(* a call runs until its first await inside the step that makes it, and    *)
(* each expiry of the timer of sleep(1000 / 80) resumes the call that      *)
(* armed it.  The timers all have the same delay, so they expire in the    *)
(* order in which they were armed.  tx1, ty1, tx2 and ty2 are computed by  *)
(* the source and never read.                                              *)
(***************************************************************************)
\* var [tileX1, tileY1, charX1, charY1] = ...; var [tileX2, tileY2, charX2, charY2] = ...
AreaLocals(x, y, width, height) ==
    LET a == coordsCharToTile(x, y)
        b == coordsCharToTile(x + width, y + height)
    IN  [tileX1 |-> a[1], tileY1 |-> a[2], charX1 |-> a[3], charY1 |-> a[4],
         tileX2 |-> b[1], tileY2 |-> b[2], charX2 |-> b[3], charY2 |-> b[4]]

\* The body of the inner loop up to the transmit: the edges of tile (dx, dy)
\* and the rectangle of cells inside it.
AreaEdges(l, dx, dy) ==
    LET leftEdge == dx = l.tileX1 /\ l.charX1 > 0
        topEdge == dy = l.tileY1 /\ l.charY1 > 0
        rightEdge == dx = l.tileX2 /\ l.charX2 < 16 - 1
        bottomEdge == dy = l.tileY2 /\ l.charY2 < 8 - 1
    IN  [edge |-> leftEdge \/ topEdge \/ rightEdge \/ bottomEdge,
         cx1 |-> IF leftEdge THEN l.charX1 ELSE 0,
         cy1 |-> IF topEdge THEN l.charY1 ELSE 0,
         cx2 |-> IF rightEdge THEN l.charX2 ELSE 16 - 1,
         cy2 |-> IF bottomEdge THEN l.charY2 ELSE 8 - 1]

\* Mutant: the right edge is taken to end one cell early.
clearTileNarrow(l, dx, dy) ==
    LET e == AreaEdges(l, dx, dy)
    IN  IF e.edge
        THEN [kind |-> "clear_tile", tileX |-> dx, tileY |-> dy, charX |-> e.cx1, charY |-> e.cy1,
              charWidth |-> e.cx2 - e.cx1, charHeight |-> e.cy2 - e.cy1 + 1]
        ELSE [kind |-> "clear_tile", tileX |-> dx, tileY |-> dy]

\* The message clearArea transmits for tile (dx, dy).
clearTile(l, dx, dy) ==
    LET e == AreaEdges(l, dx, dy)
    IN  IF e.edge
        THEN [kind |-> "clear_tile", tileX |-> dx, tileY |-> dy, charX |-> e.cx1, charY |-> e.cy1,
              charWidth |-> e.cx2 - e.cx1 + 1, charHeight |-> e.cy2 - e.cy1 + 1]
        ELSE [kind |-> "clear_tile", tileX |-> dx, tileY |-> dy]

\* The data of the message protect transmits for tile (dx, dy);
\* JSON.stringify leaves out a type that is undefined.
protectData(l, dx, dy, protection) ==
    LET e == AreaEdges(l, dx, dy)
    IN  IF e.edge
        THEN IF protection = "default"
             THEN [tileX |-> dx, tileY |-> dy, charX |-> e.cx1, charY |-> e.cy1,
                   charWidth |-> e.cx2 - e.cx1 + 1, charHeight |-> e.cy2 - e.cy1 + 1,
                   precise |-> TRUE]
             ELSE [tileX |-> dx, tileY |-> dy, charX |-> e.cx1, charY |-> e.cy1,
                   charWidth |-> e.cx2 - e.cx1 + 1, charHeight |-> e.cy2 - e.cy1 + 1,
                   precise |-> TRUE, type |-> protection]
        ELSE IF protection = "default"
             THEN [tileX |-> dx, tileY |-> dy]
             ELSE [tileX |-> dx, tileY |-> dy, type |-> protection]

protectTile(l, dx, dy, protection) ==
    [kind |-> "protect",
     action |-> IF protection = "default" THEN "unprotect" ELSE "protect",
     data |-> protectData(l, dx, dy, protection)]

areaMessage(call, dx, dy) ==
    IF call.kind = "clearArea"
    THEN clearTile(call.locals, dx, dy)
    ELSE protectTile(call.locals, dx, dy, call.protection)

\* The loop headers on entry: the first tile whose body runs, if any.
firstTile(l) ==
    IF l.tileY1 <= l.tileY2 /\ l.tileX1 <= l.tileX2
    THEN Some(<<l.tileX1, l.tileY1>>)
    ELSE Undefined

\* Mutant: the inner loop stops one tile early.
nextTileShort(l, dx, dy) ==
    IF dx + 1 < l.tileX2
    THEN Some(<<dx + 1, dy>>)
    ELSE IF dy + 1 <= l.tileY2
         THEN Some(<<l.tileX1, dy + 1>>)
         ELSE Undefined

\* dx++, then dy++ at the end of a row: the next tile whose body runs.
nextTile(l, dx, dy) ==
    IF dx + 1 <= l.tileX2
    THEN Some(<<dx + 1, dy>>)
    ELSE IF dy + 1 <= l.tileY2
         THEN Some(<<l.tileX1, dy + 1>>)
         ELSE Undefined

\* A call in progress: its parameters, its locals, and where it stands.
AreaCall(kind, args, protection, l, dx, dy, state) ==
    [kind |-> kind, args |-> args, protection |-> protection, locals |-> l, dx |-> dx,
     dy |-> dy, state |-> state]

\* The call is made: it runs up to its first await, or to its end.
areaStart(kind, x, y, width, height, protection) ==
    LET l == AreaLocals(x, y, width, height)
        id == Len(areaCalls) + 1
        first == firstTile(l)
    IN  /\ Len(areaCalls) < MaxAreaCalls
        /\ IF first = Undefined
           THEN /\ areaCalls' = Append(areaCalls,
                                       AreaCall(kind, <<x, y, width, height>>, protection, l,
                                                l.tileX1, l.tileY1, "resolved"))
                /\ wire' = <<>>
                /\ UNCHANGED sleepers
           ELSE LET call == AreaCall(kind, <<x, y, width, height>>, protection, l,
                                     first[1][1], first[1][2],
                                     IF SendThrows THEN "rejected" ELSE "sleeping")
                IN  /\ areaCalls' = Append(areaCalls, call)
                    /\ wire' = <<areaMessage(call, call.dx, call.dy)>>
                    /\ sleepers' = IF SendThrows THEN sleepers ELSE Append(sleepers, id)
        /\ events' = <<>>
        /\ lastOp' = kind
        /\ lastMsg' = NoMsg
        /\ lastCall' = [op |-> kind, args |-> <<id, x, y, width, height>>,
                        result |-> areaCalls'[id].state]
        /\ UNCHANGED <<wsState, pipelineVars, requestVars, tiles, channelId, chatId, userCount,
                       guestCursors>>

clearArea(x, y, width, height) == areaStart("clearArea", x, y, width, height, "default")

protect(x, y, width, height, protection) == areaStart("protect", x, y, width, height, protection)

\* Mutant: the timer armed last expires first.
sleepDoneNewest ==
    /\ sleepers # <<>>
    /\ LET id == sleepers[Len(sleepers)]
           call == areaCalls[id]
           nxt == nextTile(call.locals, call.dx, call.dy)
       IN  /\ IF nxt = Undefined
              THEN /\ areaCalls' = [areaCalls EXCEPT ![id].state = "resolved"]
                   /\ sleepers' = SubSeq(sleepers, 1, Len(sleepers) - 1)
                   /\ wire' = <<>>
              ELSE /\ areaCalls' = [areaCalls EXCEPT ![id].dx = nxt[1][1], ![id].dy = nxt[1][2]]
                   /\ sleepers' = sleepers
                   /\ wire' = <<areaMessage(call, nxt[1][1], nxt[1][2])>>
           /\ lastCall' = [op |-> "sleepDone", args |-> <<id>>, result |-> areaCalls'[id].state]
    /\ events' = <<>>
    /\ lastOp' = "sleepDone"
    /\ lastMsg' = NoMsg
    /\ UNCHANGED <<wsState, pipelineVars, requestVars, tiles, channelId, chatId, userCount,
                   guestCursors>>

\* The oldest timer of sleep expires: its call resumes after the await, runs
\* the loop headers and either transmits the next tile and sleeps again, or
\* ends.
sleepDone ==
    /\ sleepers # <<>>
    /\ LET id == Head(sleepers)
           call == areaCalls[id]
           nxt == nextTile(call.locals, call.dx, call.dy)
       IN  /\ IF nxt = Undefined
              THEN /\ areaCalls' = [areaCalls EXCEPT ![id].state = "resolved"]
                   /\ sleepers' = Tail(sleepers)
                   /\ wire' = <<>>
              ELSE /\ areaCalls' = [areaCalls EXCEPT ![id].dx = nxt[1][1], ![id].dy = nxt[1][2]]
                   /\ sleepers' = Append(Tail(sleepers), id)
                   /\ wire' = <<areaMessage(call, nxt[1][1], nxt[1][2])>>
           /\ lastCall' = [op |-> "sleepDone", args |-> <<id>>, result |-> areaCalls'[id].state]
    /\ events' = <<>>
    /\ lastOp' = "sleepDone"
    /\ lastMsg' = NoMsg
    /\ UNCHANGED <<wsState, pipelineVars, requestVars, tiles, channelId, chatId, userCount,
                   guestCursors>>

(***************************************************************************)
(* Calls of the functions that touch no session: the step records the      *)
(* arguments and the value returned.                                       *)
(***************************************************************************)
pureCall(op, args, result) ==
    /\ lastOp' = op
    /\ lastCall' = [op |-> op, args |-> args, result |-> result]
    /\ lastMsg' = NoMsg
    /\ wire' = <<>>
    /\ events' = <<>>
    /\ UNCHANGED <<wsState, pipelineVars, requestVars, worldVars>>

\* coordsTileToChar(...coordsCharToTile(x, y))
coordsRoundTrip(x, y) ==
    LET t == coordsCharToTile(x, y)
    IN  [tile |-> t, back |-> coordsTileToChar(t[1], t[2], t[3], t[4])]

callCoords(x, y) == pureCall("coordsCharToTile", <<x, y>>, coordsRoundTrip(x, y))

\* advancedSplit(str), as writeText and the Tile constructor call it.
callAdvancedSplit(str) ==
    pureCall("advancedSplit", <<str>>, advancedSplit(str, FALSE, FALSE, FALSE))

\* new Tile(0, 0, data).getChar(cx, cy)
callTileGetChar(data, cx, cy) ==
    pureCall("Tile.getChar", <<data, cx, cy>>, TileGetChar(Tile(0, 0, data), cx, cy))

\* bot.getChar(x, y)
callGetChar(x, y) == pureCall("getChar", <<x, y>>, getChar(x, y))

(***************************************************************************)
(* History variables.  They are observers: each is a function of the step  *)
(* just taken (the operation's name, the message it processed, the frames  *)
(* and events it produced), so that the operations above stay the code's.  *)
(***************************************************************************)
Transmits == wire' # <<>> /\ lastOp' \in {"flushWrites", "flushTimer"}

Answers == lastOp' = "message_write"

Clears == lastOp' = "clearWriteBuffer"

Known == 1..nextEditId

TransientIds(msg) == {i \in DOMAIN msg.rejected : msg.rejected[i] # 1 /\ msg.rejected[i] # 4}

PermanentIds(msg) == {i \in DOMAIN msg.rejected : msg.rejected[i] = 1 \/ msg.rejected[i] = 4}

BatchIds(frames) == UNION {IdsOf(frames[k].edits) : k \in DOMAIN frames}

hFate == <<created, acked, discarded>>
hPerm == <<permRej, permGone>>
hRetry == <<rlSince, requeued>>
hOrder == <<sentLast, everRL, cleared>>
hLive == <<inflight, rlCount>>
hReq == <<settledNow>>
hWorld == <<received, fetched>>
hCursor == <<lastCursor>>

hArea == <<areaSent>>

NoHistory == UNCHANGED <<hFate, hPerm, hRetry, hOrder, hLive, hReq, hWorld, hCursor, hArea>>

\* The edits the step appended to the buffer by writeChar or writeText.
Written ==
    IF lastOp' \in {"writeChar", "writeText"}
    THEN SubSeq(writeBuffer', Len(writeBuffer) + 1, Len(writeBuffer'))
    ELSE <<>>

\* created, acked, discarded: the fate of each edit.
TrackFate ==
    /\ created' = created \o Written
    /\ acked' = IF Answers
                THEN acked \cup ((Range(lastMsg'.accepted) \cup PermanentIds(lastMsg')) \cap Known)
                ELSE acked
    /\ discarded' = IF Clears
                    THEN discarded \cup (DOMAIN waitingEdits) \cup IdsOf(writeBuffer)
                    ELSE discarded
    /\ UNCHANGED <<hPerm, hRetry, hOrder, hLive, hReq, hWorld, hCursor, hArea>>

\* permRej, permGone: the permanent rejections.
TrackPerm ==
    /\ permRej' = IF Answers THEN permRej \cup (PermanentIds(lastMsg') \cap Known) ELSE permRej
    /\ permGone' = IF Answers
                   THEN permGone \cup ((PermanentIds(lastMsg') \cap Known) \ IdsOf(writeBuffer))
                   ELSE permGone
    /\ UNCHANGED <<hFate, hRetry, hOrder, hLive, hReq, hWorld, hCursor, hArea>>

\* rlSince, requeued: the transient rejections since the last transmitted batch.
TrackRetry ==
    /\ rlSince' = IF Transmits THEN {}
                  ELSE IF Answers THEN rlSince \cup (TransientIds(lastMsg') \cap Known)
                  ELSE rlSince
    /\ requeued' = IF Transmits \/ Clears THEN {}
                   ELSE IF Answers
                        THEN requeued \cup {i \in TransientIds(lastMsg') :
                                 i \in DOMAIN waitingEdits /\ i \notin Range(lastMsg'.accepted)}
                        ELSE requeued
    /\ UNCHANGED <<hFate, hPerm, hOrder, hLive, hReq, hWorld, hCursor, hArea>>

\* sentLast, everRL, cleared: the transmitted stream.
TrackOrder ==
    /\ sentLast' = IF Transmits
                   THEN EditId(wire'[1].edits[Len(wire'[1].edits)])
                   ELSE sentLast
    /\ everRL' = (everRL \/ (Answers /\ TransientIds(lastMsg') # {}))
    /\ cleared' = (cleared \/ Clears)
    /\ UNCHANGED <<hFate, hPerm, hRetry, hLive, hReq, hWorld, hCursor, hArea>>

\* inflight, rlCount: what the server holds and has answered.
TrackLive ==
    /\ inflight' = IF Transmits /\ wsState = "open" THEN inflight \cup BatchIds(wire')
                   ELSE IF Answers
                        THEN inflight \ (Range(lastMsg'.accepted) \cup DOMAIN lastMsg'.rejected)
                        ELSE inflight
    /\ rlCount' = IF Answers THEN rlCount + Cardinality(TransientIds(lastMsg')) ELSE rlCount
    /\ UNCHANGED <<hFate, hPerm, hRetry, hOrder, hReq, hWorld, hCursor, hArea>>

\* settledNow: the calls whose promise this step resolved or rejected.
TrackReq ==
    /\ settledNow' = {call \in DOMAIN promises' :
                          /\ promises'[call] # "pending"
                          /\ call \in DOMAIN promises => promises[call] = "pending"}
    /\ UNCHANGED <<hFate, hPerm, hRetry, hOrder, hLive, hWorld, hCursor, hArea>>

\* The tiles a message names, by their coordinates <<tileX, tileY>>: the
\* protocol key puts the row first.
TilesOf(msg) == {<<c[2], c[1]>> : c \in DOMAIN msg.tiles}

Resolves == \E call \in DOMAIN promises : promises[call] = "pending" /\ promises'[call] = "resolved"

\* received, fetched: the tiles that have come in.
TrackWorld ==
    /\ received' = IF lastOp' \in {"message_fetch", "message_tileUpdate"}
                   THEN received \cup TilesOf(lastMsg')
                   ELSE received
    /\ fetched' = IF lastOp' = "message_fetch" /\ Resolves
                  THEN fetched \cup TilesOf(lastMsg')
                  ELSE fetched
    /\ UNCHANGED <<hFate, hPerm, hRetry, hOrder, hLive, hReq, hCursor, hArea>>

Next ==
    \/ wsOpen /\ NoHistory
    \/ wsClose /\ NoHistory
    \/ Call /\ NoHistory
    \/ FlushCall /\ NoHistory
    \/ FlushTimer /\ NoHistory
    \/ clearWriteBuffer /\ NoHistory
    \/ ServerWrite /\ NoHistory

Spec == Init /\ [][Next]_vars

NextFate ==
    \/ wsOpen /\ TrackFate
    \/ wsClose /\ TrackFate
    \/ Call /\ TrackFate
    \/ FlushCall /\ TrackFate
    \/ FlushTimer /\ TrackFate
    \/ clearWriteBuffer /\ TrackFate
    \/ ServerWrite /\ TrackFate

SpecFate == Init /\ [][NextFate]_vars

NextPerm ==
    \/ wsOpen /\ TrackPerm
    \/ wsClose /\ TrackPerm
    \/ Call /\ TrackPerm
    \/ FlushCall /\ TrackPerm
    \/ FlushTimer /\ TrackPerm
    \/ clearWriteBuffer /\ TrackPerm
    \/ ServerWrite /\ TrackPerm

SpecPerm == Init /\ [][NextPerm]_vars

NextRetry ==
    \/ wsOpen /\ TrackRetry
    \/ wsClose /\ TrackRetry
    \/ Call /\ TrackRetry
    \/ FlushCall /\ TrackRetry
    \/ FlushTimer /\ TrackRetry
    \/ clearWriteBuffer /\ TrackRetry
    \/ ServerWrite /\ TrackRetry

SpecRetry == Init /\ [][NextRetry]_vars

NextOrder ==
    \/ wsOpen /\ TrackOrder
    \/ wsClose /\ TrackOrder
    \/ Call /\ TrackOrder
    \/ FlushCall /\ TrackOrder
    \/ FlushTimer /\ TrackOrder
    \/ clearWriteBuffer /\ TrackOrder
    \/ ServerWrite /\ TrackOrder

SpecOrder == Init /\ [][NextOrder]_vars

(***************************************************************************)
(* The pipeline under bulk writes: texts long enough for the buffer to     *)
(* hold more than one batch.                                               *)
(***************************************************************************)
NextBulk ==
    \/ wsOpen /\ NoHistory
    \/ wsClose /\ NoHistory
    \/ CallText /\ NoHistory
    \/ FlushCall /\ NoHistory
    \/ FlushTimer /\ NoHistory
    \/ clearWriteBuffer /\ NoHistory

SpecBulk == Init /\ [][NextBulk]_vars

(***************************************************************************)
(* Correlated requests: calls of the three kinds and replies carrying any  *)
(* id, in any order, repeated or never sent.                               *)
(***************************************************************************)
ReplyIds == {0, 1, 2}

NextReq ==
    \/ wsOpen /\ TrackReq
    \/ wsClose /\ TrackReq
    \/ ping /\ TrackReq
    \/ stats /\ TrackReq
    \/ fetchTiles(0, 0, 0, 0) /\ TrackReq
    \/ (\E id \in ReplyIds : message_ping(id)) /\ TrackReq
    \/ (\E id \in ReplyIds : message_stats(id)) /\ TrackReq
    \/ (\E id \in ReplyIds : message_fetch(id, EmptyMap)) /\ TrackReq

SpecReq == Init /\ [][NextReq]_vars

(***************************************************************************)
(* fetchTiles over rectangles of several sizes, minX <= maxX, minY <= maxY. *)
(***************************************************************************)
TileCoords == {-50, 0, 50}

Rects == {r \in TileCoords \X TileCoords \X TileCoords \X TileCoords :
              r[1] <= r[3] /\ r[2] <= r[4]}

NextArea ==
    \/ wsOpen /\ TrackReq
    \/ wsClose /\ TrackReq
    \/ (\E r \in Rects : fetchTiles(r[1], r[2], r[3], r[4])) /\ TrackReq
    \/ (\E id \in ReplyIds : message_fetch(id, EmptyMap)) /\ TrackReq

SpecArea == Init /\ [][NextArea]_vars

(***************************************************************************)
(* The tile cache under fetch and tileUpdate messages.  ProtocolKeys are   *)
(* the keys "0,1" and "-1,0" (row first) of a message's tiles.             *)
(***************************************************************************)
ProtocolKeys == {<<0, 1>>, <<-1, 0>>}

\* A tile of 128 letters "a" with no optional property.
PlainTile ==
    [content |-> [k \in 1..TileCells |-> 97],
     properties |-> [writability |-> Null, color |-> Undefined, bcolor |-> Undefined,
                     char |-> Undefined, cell_props |-> Undefined]]

RawTiles == {Null, PlainTile}

\* The tiles of a message that carries n of the keys.
Payloads(n) ==
    UNION {[D -> RawTiles] : D \in {S \in SUBSET ProtocolKeys : Cardinality(S) = n}}

FetchPayloads == Payloads(0) \cup Payloads(1)

UpdatePayloads == Payloads(1) \cup Payloads(2)

FetchReplyIds == {0, 1}

Channels == {"ab", "cd", "ef"}

NextTiles ==
    \/ wsOpen /\ TrackWorld
    \/ wsClose /\ TrackWorld
    \/ fetchTiles(0, 0, 0, 0) /\ TrackWorld
    \/ (\E id \in FetchReplyIds, payload \in FetchPayloads : message_fetch(id, payload)) /\ TrackWorld
    \/ (\E payload \in UpdatePayloads : message_tileUpdate("ab", payload)) /\ TrackWorld

SpecTiles == Init /\ [][NextTiles]_vars

(***************************************************************************)
(* The session's identity: channel and user_count messages.                *)
(***************************************************************************)
ChatIds == {1, 2, 3}

UserCounts == {1, 5, 9}

NextChannel ==
    \/ wsOpen /\ NoHistory
    \/ wsClose /\ NoHistory
    \/ (\E sender \in Channels, id \in ChatIds, count \in UserCounts :
            message_channel(sender, id, count)) /\ NoHistory
    \/ (\E count \in UserCounts : message_user_count(count)) /\ NoHistory

SpecChannel == Init /\ [][NextChannel]_vars

(***************************************************************************)
(* Guest cursors.  The server sends the channel message once, when the     *)
(* session starts, and cursor messages after it.                           *)
(***************************************************************************)
\* A cursor message the handler processes to its end: it is hidden or it
\* carries a position.
WellFormedCursor(msg) == msg.hidden \/ msg.position # Undefined

\* lastCursor: per channel, the last cursor message since the channel message.
TrackCursor ==
    /\ lastCursor' = IF lastOp' = "message_channel" THEN EmptyMap
                     ELSE IF lastOp' = "message_cursor" /\ WellFormedCursor(lastMsg')
                          THEN MapSet(lastCursor, lastMsg'.channel, lastMsg')
                          ELSE lastCursor
    /\ UNCHANGED <<hFate, hPerm, hRetry, hOrder, hLive, hReq, hWorld, hArea>>

CursorPositions ==
    {[tileX |-> -1, tileY |-> 0, charX |-> 15, charY |-> 7],
     [tileX |-> 0, tileY |-> -1, charX |-> 0, charY |-> 0]}

\* hidden and position of the cursor messages: hidden, shown at a position,
\* and neither.
CursorShapes ==
    {<<TRUE, Undefined>>, <<FALSE, Undefined>>} \cup {<<FALSE, Some(pos)>> : pos \in CursorPositions}

NextCursor ==
    \/ wsOpen /\ TrackCursor
    \/ wsClose /\ TrackCursor
    \/ (channelId = Undefined /\ \E sender \in Channels : message_channel(sender, 1, 1)) /\ TrackCursor
    \/ (channelId # Undefined /\ \E channel \in Channels, shape \in CursorShapes :
            message_cursor(channel, shape[1], shape[2])) /\ TrackCursor

SpecCursor == Init /\ [][NextCursor]_vars

(***************************************************************************)
(* The flush timer: the caller sets the interval at any time, before and   *)
(* after the transport opens, and writes in between.                       *)
(***************************************************************************)
Intervals == {0, 1000, 5000}

NextTimer ==
    \/ wsOpen /\ NoHistory
    \/ wsClose /\ NoHistory
    \/ (\E interval \in Intervals : setFlushInterval(interval)) /\ NoHistory
    \/ Call /\ NoHistory
    \/ FlushTimer /\ NoHistory

SpecTimer == Init /\ [][NextTimer]_vars

(***************************************************************************)
(* writeText over short texts of letters, newlines, a combining mark and   *)
(* the two halves of a surrogate pair, from two starting positions, on a   *)
(* buffer that holds up to MaxEdits edits.                                 *)
(***************************************************************************)
MaxTextLen == 3

\* "a", "b", "\n", U+0301, and the code units U+D83D, U+DE00.
CodeUnits == {97, 98, 10, 769, 55357, 56832}

RECURSIVE Strings(_, _)
Strings(units, n) ==
    IF n = 0
    THEN {<<>>}
    ELSE LET shorter == Strings(units, n - 1)
         IN  shorter \cup {Append(str, u) : str \in shorter, u \in units}

\* "ab\ncd"
TwoLines == <<97, 98, 10, 99, 100>>

Texts == Strings(CodeUnits, MaxTextLen) \cup {TwoLines}

TextOrigins == {<<0, 0>>, <<-2, 7>>}

\* The caller writes some characters, then one text.
NextText ==
    \/ (lastOp # "writeText" /\ Call) /\ NoHistory
    \/ (lastOp # "writeText" /\ \E o \in TextOrigins, text \in Texts : writeText(o[1], o[2], text))
           /\ NoHistory

SpecText == Init /\ [][NextText]_vars

(***************************************************************************)
(* Tiles decoded from payloads: for each payload and each of the 128       *)
(* cells, one behaviour that constructs the tile and reads the cell.       *)
(***************************************************************************)
TileData(content, writability, color, bcolor, char) ==
    [content |-> content,
     properties |-> [writability |-> writability, color |-> color, bcolor |-> bcolor,
                     char |-> char, cell_props |-> Undefined]]

Letters(n) == [k \in 1..n |-> 97]

\* 128 cells: letters; a surrogate pair, then letters; a letter with a
\* combining mark, then letters.
WholeContents ==
    {Letters(128), <<55357, 56832>> \o Letters(127), <<97, 769>> \o Letters(127)}

\* Three letters; 128 code units that end with a high surrogate and a letter.
BrokenContents == {Letters(3), Letters(126) \o <<55357, 97>>}

\* No colours; one colour per cell; one colour in all.
ColorArrays == {Undefined, Some(Filled(255)), Some(<<255>>)}

ContentTiles ==
    {TileData(content, Null, color, bcolor, Undefined) :
        content \in WholeContents \cup BrokenContents,
        color \in ColorArrays, bcolor \in {Undefined, Some(Filled(255))}}

\* Packed protections: none, "", "@", "@A", "@b", "@G", "@/", "@bA", "@Ab",
\* "@" with 43 "b", "@" with 42 "G".  "b" is 27, binary 01 10 11.
PackedStrings ==
    {Undefined, Some(<<>>), Some(<<64>>), Some(<<64, 65>>), Some(<<64, 98>>), Some(<<64, 71>>),
     Some(<<64, 47>>), Some(<<64, 98, 65>>), Some(<<64, 65, 98>>),
     Some(<<64>> \o [k \in 1..43 |-> 98]), Some(<<64>> \o [k \in 1..42 |-> 71])}

Protections == {Null, Level(0), Level(1), Level(2)}

ProtectedTiles ==
    {TileData(Letters(128), writability, Undefined, Undefined, char) :
        writability \in Protections, char \in PackedStrings}

TileDatas == {Null} \cup ContentTiles \cup ProtectedTiles

NextTile ==
    (lastCall = NoCall /\ \E data \in TileDatas, cx \in 0..15, cy \in 0..7 :
        callTileGetChar(data, cx, cy)) /\ NoHistory

SpecTile == Init /\ [][NextTile]_vars

(***************************************************************************)
(* The coordinate conversions, over two tiles and a cell on every side of  *)
(* the origin.                                                             *)
(***************************************************************************)
CharXs == -33..33

CharYs == -17..17

NextCoords ==
    (lastCall = NoCall /\ \E x \in CharXs, y \in CharYs : callCoords(x, y)) /\ NoHistory

SpecCoords == Init /\ [][NextCoords]_vars

(***************************************************************************)
(* Segmentation of the strings of up to MaxStrLen code units over "a",     *)
(* "\n", U+0301, the first and last high surrogate and the first and last  *)
(* low surrogate.                                                          *)
(***************************************************************************)
MaxStrLen == 4

SplitUnits == {97, 10, 769, 55296, 56319, 56320, 57343}

SplitInputs == Strings(SplitUnits, MaxStrLen)

NextSplit ==
    (lastCall = NoCall /\ \E str \in SplitInputs : callAdvancedSplit(str)) /\ NoHistory

SpecSplit == Init /\ [][NextSplit]_vars

(***************************************************************************)
(* writeChar at cells on both sides of the origin and of a tile border,    *)
(* between flushes and clears.                                             *)
(***************************************************************************)
WriteXs == {-17, -1, 0, 16}

WriteYs == {-9, -1, 8}

NextWrite ==
    \/ wsOpen /\ NoHistory
    \/ (\E x \in WriteXs, y \in WriteYs, char \in Chars : writeChar(x, y, char)) /\ NoHistory
    \/ FlushTimer /\ NoHistory
    \/ clearWriteBuffer /\ NoHistory

SpecWrite == Init /\ [][NextWrite]_vars

(***************************************************************************)
(* The tile cache under fetch and tileUpdate messages that name the same   *)
(* tiles again and again with different payloads: blank tiles, tiles of    *)
(* letters, and tiles of letters under owner protection.                   *)
(***************************************************************************)
OwnedTile == TileData(Letters(TileCells), Level(2), Undefined, Undefined, Undefined)

CachePayloads ==
    UNION {[D -> {Null, PlainTile, OwnedTile}] : D \in (SUBSET ProtocolKeys) \ {{}}}

\* Cells of tile (1, 0), of tile (0, -1), and of tile (0, 0), which no
\* message names.
CacheProbes == {<<16, 0>>, <<15, -1>>, <<0, 0>>}

NextCache ==
    \/ wsOpen /\ TrackWorld
    \/ (lastCall = NoCall /\ \E payload \in CachePayloads : message_fetch(0, payload)) /\ TrackWorld
    \/ (lastCall = NoCall /\ \E payload \in CachePayloads : message_tileUpdate("ab", payload))
           /\ TrackWorld
    \/ (lastCall = NoCall /\ \E c \in CacheProbes : callGetChar(c[1], c[2])) /\ TrackWorld

SpecCache == Init /\ [][NextCache]_vars

(***************************************************************************)
(* clearArea and protect on an open transport.  areaSent is an observer:   *)
(* per call, the messages the call has handed to the socket so far.        *)
(***************************************************************************)
TrackArea ==
    /\ areaSent' =
           LET base == IF Len(areaCalls') > Len(areaSent) THEN Append(areaSent, <<>>) ELSE areaSent
           IN  IF lastOp' \in {"clearArea", "protect", "sleepDone"} /\ wire' # <<>>
               THEN [base EXCEPT ![lastCall'.args[1]] = @ \o wire']
               ELSE base
    /\ UNCHANGED <<hFate, hPerm, hRetry, hOrder, hLive, hReq, hWorld, hCursor>>

RectXs == {-17, 0, 5}

RectYs == {-1, 0, 3}

RectWidths == {-6, -1, 0, 10, 15, 31}

RectHeights == {-9, 0, 4, 7, 12}

\* One call, over rectangles of no tile, one tile and up to three by three
\* tiles, with whole and partial tiles on every side.
NextRect ==
    \/ wsOpen /\ TrackArea
    \/ (/\ wsState = "open"
        /\ areaCalls = <<>>
        /\ \E x \in RectXs, y \in RectYs, width \in RectWidths, height \in RectHeights :
               clearArea(x, y, width, height)) /\ TrackArea
    \/ (/\ wsState = "open"
        /\ areaCalls = <<>>
        /\ \E x \in RectXs, y \in RectYs, width \in RectWidths, height \in RectHeights :
           \E protection \in {"default", "owner-only"} :
               protect(x, y, width, height, protection)) /\ TrackArea
    \/ sleepDone /\ TrackArea

SpecRect == Init /\ [][NextRect]_vars

\* The timer of a sleep expires: setTimeout calls resolve after the delay.
SpecRectFair == SpecRect /\ WF_vars(sleepDone /\ TrackArea)

\* Width and height of a rectangle of one tile, of two tiles side by side and
\* of two rows of two tiles, from the origin.
PaceSizes == {<<0, 0>>, <<16, 0>>, <<31, 8>>}

\* Several calls on one session: a call can be made while another sleeps.
NextPace ==
    \/ wsOpen /\ TrackArea
    \/ (wsState = "open" /\ \E size \in PaceSizes : clearArea(0, 0, size[1], size[2])) /\ TrackArea
    \/ (wsState = "open" /\ \E size \in PaceSizes : protect(0, 0, size[1], size[2], "public"))
           /\ TrackArea
    \/ sleepDone /\ TrackArea

SpecPace == Init /\ [][NextPace]_vars

(***************************************************************************)
(* The pipeline on an open transport with a server that keeps to the       *)
(* protocol: the transport opens, the flush timer keeps firing, the server *)
(* answers what it was sent.                                               *)
(***************************************************************************)
NextLive ==
    \/ wsOpen /\ TrackLive
    \/ Call /\ TrackLive
    \/ FlushOpen /\ TrackLive
    \/ FlushTimer /\ TrackLive
    \/ clearWriteBuffer /\ TrackLive
    \/ ServerAnswer /\ TrackLive

SpecLive ==
    /\ Init
    /\ [][NextLive]_vars
    /\ WF_vars(wsOpen /\ TrackLive)
    /\ WF_vars(FlushTimer /\ TrackLive)
    /\ WF_vars(ServerAnswer /\ TrackLive)

RetriedBy(msg) ==
    {i \in TransientIds(msg) : i \in DOMAIN waitingEdits /\ i \notin Range(msg.accepted)}

C2_RateLimitedRequeue ==
    [][Answers =>
        LET T == RetriedBy(lastMsg')
            tail == SubSeq(writeBuffer', Len(writeBuffer) + 1, Len(writeBuffer'))
        IN  /\ \A i \in T :
                /\ WriteResult(i, "Ratelimited") \in Range(events')
                /\ i \in DOMAIN waitingEdits'
                /\ waitingEdits'[i] = waitingEdits[i]
                /\ waitingEdits[i] \in Range(tail)
            /\ nextEditId' = nextEditId
            /\ Len(writeBuffer') = Len(writeBuffer) + Cardinality(T)
            /\ SubSeq(writeBuffer', 1, Len(writeBuffer)) = writeBuffer]_vars

\* A response re-queued an edit behind another edit that was already queued.
C2_Witness ==
    /\ lastOp = "message_write"
    /\ Len(writeBuffer) >= 2
    /\ EditId(writeBuffer[Len(writeBuffer)]) \in TransientIds(lastMsg)
    /\ EditId(writeBuffer[1]) \notin DOMAIN lastMsg.rejected
    /\ EditId(writeBuffer[Len(writeBuffer)]) < EditId(writeBuffer[1])

(***************************************************************************)
(* C5: at the end of processing a write response, writeBufferEmpty has     *)
(* been emitted if and only if the waiting-edit table and the outgoing     *)
(* buffer are both empty; whenever the event is emitted (by a response or  *)
(* by clearWriteBuffer) nothing is buffered or awaiting acknowledgment.    *)
(***************************************************************************)
EmittedEmpty == WriteBufferEmpty \in Range(events)

C5_EmptyEventIffEmpty ==
    /\ lastOp = "message_write" =>
           (EmittedEmpty <=> (waitingEdits = EmptyMap /\ writeBuffer = <<>>))
    /\ EmittedEmpty =>
           /\ waitingEdits = EmptyMap /\ writeBuffer = <<>>
           /\ lastOp \in {"message_write", "clearWriteBuffer"}
           /\ events[Len(events)] = WriteBufferEmpty

\* A response that settled the last outstanding edit and emitted the event.
C5_Witness ==
    /\ lastOp = "message_write"
    /\ EmittedEmpty
    /\ Len(events) >= 2
    /\ nextEditId = MaxEdits

(***************************************************************************)
(* C10: clearWriteBuffer, whatever the state, leaves the outgoing buffer   *)
(* and the waiting-edit table empty, hands nothing to the socket and emits *)
(* writeBufferEmpty exactly once.                                          *)
(***************************************************************************)
C10_ClearEmptiesAll ==
    lastOp = "clearWriteBuffer" =>
        /\ writeBuffer = <<>>
        /\ waitingEdits = EmptyMap
        /\ wire = <<>>
        /\ events = <<WriteBufferEmpty>>

\* clearWriteBuffer ran on a session that held edits, some of them unsettled.
C10_Witness ==
    /\ lastOp = "clearWriteBuffer"
    /\ discarded = 1..MaxEdits
    /\ acked = {}

(***************************************************************************)
(* C3 as stated: after a write response rejects edit i with a transient    *)
(* reason code, the next write batch the client transmits contains i.      *)
(***************************************************************************)
C3_Original ==
    [][Transmits => rlSince \subseteq BatchIds(wire')]_vars

(***************************************************************************)
(* C3 amended: after a write response rejects edit i with a transient      *)
(* reason code while i is in the waiting-edit table, the next write batch  *)
(* the client transmits contains i, provided clearWriteBuffer is not       *)
(* called in between and at most 512 edits are buffered at that flush.     *)
(***************************************************************************)
C3_RetriedInNextBatch ==
    [][(Transmits /\ Len(writeBuffer) <= 512) => requeued \subseteq BatchIds(wire')]_vars

\* A batch that carries a re-queued edit behind an edit written later.
C3_Witness ==
    /\ lastOp \in {"flushWrites", "flushTimer"}
    /\ wire # <<>>
    /\ Len(wire[1].edits) = 2
    /\ EditId(wire[1].edits[1]) > EditId(wire[1].edits[2])

(***************************************************************************)
(* C4 as stated: when a write response rejects id i with reason code 1 or  *)
(* 4, i leaves the waiting-edit table, a Rejected result is emitted for i, *)
(* and no write batch transmitted afterwards contains edit i.              *)
(***************************************************************************)
RejectedNow ==
    lastOp = "message_write" =>
        \A i \in PermanentIds(lastMsg) :
            /\ i \notin DOMAIN waitingEdits
            /\ WriteResult(i, "Rejected") \in Range(events)

C4_Original ==
    /\ RejectedNow
    /\ \A i \in permRej : i \notin DOMAIN waitingEdits /\ i \notin BatchIds(wire)

(***************************************************************************)
(* C4 amended: when a write response rejects id i with reason code 1 or 4, *)
(* i leaves the waiting-edit table for good and a Rejected result is       *)
(* emitted for i; if no copy of edit i is in the outgoing buffer when the  *)
(* response is processed, no write batch transmitted afterwards contains   *)
(* edit i.                                                                 *)
(***************************************************************************)
C4_PermanentlyRejected ==
    /\ RejectedNow
    /\ \A i \in permRej : i \notin DOMAIN waitingEdits
    /\ \A i \in permGone : i \notin BatchIds(wire) /\ i \notin IdsOf(writeBuffer)

\* A batch is transmitted after an edit was permanently rejected.
C4_Witness ==
    /\ lastOp \in {"flushWrites", "flushTimer"}
    /\ wire # <<>>
    /\ permGone # {}
    /\ \E i \in permGone : i < EditId(wire[1].edits[1])

(***************************************************************************)
(* C7 as stated: every edit writeChar created that has not received a      *)
(* terminal acknowledgment (acceptance or permanent rejection) is in the   *)
(* waiting-edit table or in the outgoing buffer.                           *)
(***************************************************************************)
Accounted(i) == i \in DOMAIN waitingEdits \/ i \in IdsOf(writeBuffer)

C7_Original ==
    \A k \in DOMAIN created :
        EditId(created[k]) \notin acked => Accounted(EditId(created[k]))

(***************************************************************************)
(* C7 amended: every edit writeChar created that has not received a        *)
(* terminal acknowledgment and has not been discarded by clearWriteBuffer  *)
(* is in the waiting-edit table or in the outgoing buffer.                 *)
(***************************************************************************)
C7_AccountedUnlessCleared ==
    \A k \in DOMAIN created :
        (EditId(created[k]) \notin acked /\ EditId(created[k]) \notin discarded)
            => Accounted(EditId(created[k]))

\* An unsettled edit that was flushed, beside a settled and a discarded one.
C7_Witness ==
    /\ Len(created) = MaxEdits
    /\ \E k \in DOMAIN created :
          /\ EditId(created[k]) \notin acked \cup discarded
          /\ EditId(created[k]) \notin IdsOf(writeBuffer)
    /\ acked \cup discarded # {}

(***************************************************************************)
(* C8: edit ids are unique and strictly increasing in writeChar call       *)
(* order, whatever flushes, responses, re-queues and clearWriteBuffer      *)
(* calls come in between, and the id counter never decreases.              *)
(***************************************************************************)
C8_IdsIncrease ==
    [][/\ \A j, k \in DOMAIN created' :
              j < k => EditId(created'[j]) < EditId(created'[k])
       /\ \A k \in DOMAIN created' : EditId(created'[k]) <= nextEditId'
       /\ nextEditId' >= nextEditId]_vars

\* writeChar ran after clearWriteBuffer had dropped an earlier edit.
C8_Witness ==
    /\ lastOp = "writeChar"
    /\ Len(created) >= 2
    /\ discarded # {}

(***************************************************************************)
(* C9: as long as no response has carried a transient rejection and        *)
(* clearWriteBuffer has not been called, the transmitted write batches,    *)
(* one after the other, list the edits in writeChar call order, each once: *)
(* every batch continues the id sequence where the previous batch ended.   *)
(***************************************************************************)
C9_StreamInCallOrder ==
    [][(Transmits /\ ~everRL /\ ~cleared) =>
          \A k \in DOMAIN wire'[1].edits : EditId(wire'[1].edits[k]) = sentLast + k]_vars

\* A second batch, transmitted after the first one.
C9_Witness ==
    /\ lastOp \in {"flushWrites", "flushTimer"}
    /\ wire # <<>>
    /\ ~everRL /\ ~cleared
    /\ EditId(wire[1].edits[1]) > 1

(***************************************************************************)
(* C6: on an open transport whose flush timer keeps firing, with a server  *)
(* that answers every edit it was sent and rate-limits only finitely       *)
(* often, and with finitely many writes, whenever an edit is awaiting      *)
(* acknowledgment a state follows in which writeBufferEmpty has just been  *)
(* emitted and no edit is buffered or awaiting acknowledgment: every edit  *)
(* leaves the waiting-edit table and the event follows the last one.       *)
(***************************************************************************)
C6_EventuallyResolved ==
    (waitingEdits # EmptyMap) ~>
        (EmittedEmpty /\ waitingEdits = EmptyMap /\ writeBuffer = <<>>)

\* The response that settles the last edit, after a rate-limited retry.
C6_Witness ==
    /\ lastOp = "message_write"
    /\ EmittedEmpty
    /\ nextEditId = MaxEdits
    /\ rlCount > 0
    /\ inflight = {}

(***************************************************************************)
(* C11: a write response that names an id which is not in the waiting-edit *)
(* table (accepted, permanently rejected or rate-limited) changes nothing  *)
(* for that id: the id stays out of the table and no copy of it is added   *)
(* to or taken from the outgoing buffer; a response naming only such ids   *)
(* leaves the table and the buffer as they were.                           *)
(***************************************************************************)
NamedIds(msg) == Range(msg.accepted) \cup DOMAIN msg.rejected

Copies(i, buf) == Cardinality({k \in DOMAIN buf : EditId(buf[k]) = i})

C11_StaleIdIgnored ==
    [][Answers =>
        LET stale == NamedIds(lastMsg') \ DOMAIN waitingEdits
        IN  /\ \A i \in stale :
                /\ i \notin DOMAIN waitingEdits'
                /\ Copies(i, writeBuffer') = Copies(i, writeBuffer)
            /\ NamedIds(lastMsg') \subseteq stale =>
                   (waitingEdits' = waitingEdits /\ writeBuffer' = writeBuffer)]_vars

\* A response rate-limits an id that clearWriteBuffer discarded earlier.
C11_Witness ==
    /\ lastOp = "message_write"
    /\ TransientIds(lastMsg) \cap discarded # {}
    /\ lastMsg.accepted = <<>>
    /\ writeBuffer = <<>>

ReplyKind ==
    IF lastOp' = "message_ping" THEN "ping"
    ELSE IF lastOp' = "message_stats" THEN "stats"
    ELSE IF lastOp' = "message_fetch" THEN "fetch"
    ELSE "none"

ReplyId == IF ReplyKind = "fetch" THEN lastMsg'.request ELSE lastMsg'.id

C16_ResolvesAtMostOnce ==
    [][/\ \A call \in DOMAIN promises :
              promises[call] # "pending" => promises'[call] = promises[call]
       /\ ReplyKind # "none" =>
              /\ \A id \in Range(listeners[ReplyKind]) :
                     id # ReplyId => id \in Range(listeners'[ReplyKind])
              /\ ReplyId \in Range(listeners[ReplyKind]) =>
                     /\ ReplyId \notin Range(listeners'[ReplyKind])
                     /\ promises'[<<ReplyKind, ReplyId>>] # "pending"
              /\ ReplyId \notin Range(listeners[ReplyKind]) =>
                     UNCHANGED <<listeners, promises>>]_vars

\* The reply to ping 1 arrives a second time, a stats call still pending.
C16_Witness ==
    /\ lastOp = "message_ping"
    /\ lastMsg.id = 1
    /\ settledNow = {}
    /\ <<"ping", 1>> \in DOMAIN promises
    /\ promises[<<"ping", 1>>] = "resolved"
    /\ listeners["ping"] = <<>>
    /\ listeners["stats"] # <<>>

(***************************************************************************)
(* C17: with calls of several kinds in flight, a reply of one kind         *)
(* carrying id k settles the pending call of that kind that took id k and  *)
(* no other call, whatever ids the calls of the other kinds took; a call   *)
(* never takes an id a call of its kind took before.                       *)
(***************************************************************************)
C17_ReplyResolvesItsCall ==
    [][/\ ReplyKind # "none" =>
              \A call \in DOMAIN promises :
                  IF call = <<ReplyKind, ReplyId>> /\ promises[call] = "pending"
                  THEN promises'[call] = "resolved"
                  ELSE promises'[call] = promises[call]
       /\ \A call \in DOMAIN promises' :
              call \notin DOMAIN promises =>
                  /\ call[2] \notin Range(listeners[call[1]])
                  /\ call[2] = (IF call[1] = "ping" THEN nextPingId'
                                ELSE IF call[1] = "stats" THEN nextStatsId'
                                ELSE nextFetchId' - 1)
       /\ nextPingId' >= nextPingId
       /\ nextStatsId' >= nextStatsId
       /\ nextFetchId' >= nextFetchId]_vars

\* The reply to stats 1 resolved it while ping 1 and fetch 0 are pending.
C17_Witness ==
    /\ lastOp = "message_stats"
    /\ settledNow = {<<"stats", 1>>}
    /\ <<"ping", 1>> \in DOMAIN promises
    /\ promises[<<"ping", 1>>] = "pending"
    /\ <<"fetch", 0>> \in DOMAIN promises
    /\ promises[<<"fetch", 0>>] = "pending"

(***************************************************************************)
(* C18: when the socket closes, disconnected is emitted and nothing is     *)
(* sent; the socket stays closed, the only frames handed to it afterwards  *)
(* are those of new calls, and an awaitable that is pending stays pending. *)
(***************************************************************************)
C18_PendingAfterClose ==
    [][/\ lastOp' = "close" =>
              /\ events' = <<Disconnected>>
              /\ wire' = <<>>
              /\ UNCHANGED <<listeners, promises>>
       /\ wsState = "closed" =>
              /\ wsState' = "closed"
              /\ wire' # <<>> => lastCall' # NoCall
              /\ \A call \in DOMAIN promises : promises'[call] = promises[call]]_vars

\* The socket closes with a ping, a stats and a fetchTiles call pending.
C18_Witness ==
    /\ lastOp = "close"
    /\ wsState = "closed"
    /\ \A call \in {<<"ping", 1>>, <<"stats", 1>>, <<"fetch", 0>>} :
           call \in DOMAIN promises /\ promises[call] = "pending"

(***************************************************************************)
(* C13: fetchTiles(minX, minY, maxX, maxY) with minX <= maxX and           *)
(* minY <= maxY rejects without transmitting exactly when the rectangle    *)
(* spans more than 2500 tiles, (maxX - minX + 1) * (maxY - minY + 1) >     *)
(* 2500; a rectangle of at most 2500 tiles is transmitted (the socket being *)
(* open).                                                                  *)
(***************************************************************************)
TilesSpanned(a) == (a[3] - a[1] + 1) * (a[4] - a[2] + 1)

C13_RejectsOver2500Tiles ==
    (lastOp = "fetchTiles" /\ wsState = "open") =>
        IF TilesSpanned(lastCall.args) > 2500
        THEN lastCall.result = "rejected" /\ wire = <<>>
        ELSE wire # <<>>

(***************************************************************************)
(* C14: when fetchTiles rejects because its area check finds the rectangle *)
(* too large, nothing is handed to the socket, no closure is registered,   *)
(* no promise is recorded as awaiting a reply and nextFetchId is not       *)
(* changed.                                                                *)
(***************************************************************************)
C14_RejectionLeavesSession ==
    [][(lastOp' = "fetchTiles" /\
        (lastCall'.args[3] - lastCall'.args[1]) * (lastCall'.args[4] - lastCall'.args[2]) > 2500)
          => /\ lastCall'.result = "rejected"
             /\ wire' = <<>>
             /\ events' = <<>>
             /\ UNCHANGED <<nextFetchId, listeners, promises, tiles>>]_vars

\* A too large rectangle is rejected while an earlier fetch awaits its reply.
C14_Witness ==
    /\ lastOp = "fetchTiles"
    /\ lastCall.result = "rejected"
    /\ wire = <<>>
    /\ wsState = "open"
    /\ nextFetchId = 1
    /\ listeners["fetch"] = <<0>>
    /\ promises[<<"fetch", 0>>] = "pending"

(***************************************************************************)
(* C15: getChar(x, y) returns null as long as no fetch or tileUpdate       *)
(* message has carried the tile (floor(x / 16), floor(y / 8)); once a      *)
(* fetch message that carried the tile has resolved a fetchTiles call,     *)
(* getChar(x, y) returns a cell, from the state that resolution leaves on. *)
(***************************************************************************)
ProbeXs == {-1, 0, 16, 31}

ProbeYs == {0, 7, 8}

C15_FetchedTileVisible ==
    \A x \in ProbeXs, y \in ProbeYs :
        /\ <<x \div 16, y \div 8>> \notin received => getChar(x, y) = Null
        /\ <<x \div 16, y \div 8>> \in fetched => getChar(x, y) # Null

\* The reply that resolves a fetchTiles call carried tile (1, 0); tile
\* (0, 1) has never been received.
C15_Witness ==
    /\ lastOp = "message_fetch"
    /\ <<1, 0>> \in fetched
    /\ <<0, 1>> \notin received
    /\ getChar(16, 0) # Null
    /\ getChar(0, 8) = Null
    /\ \E call \in DOMAIN promises : promises[call] = "resolved"

(***************************************************************************)
(* C20 as stated: the tileUpdate event carries a map with one entry per    *)
(* tile of the incoming message, each under the key "tileY,tileX" of that  *)
(* tile.                                                                   *)
(***************************************************************************)
C20_Original ==
    lastOp = "message_tileUpdate" =>
        /\ Len(events) = 1
        /\ events[1].name = "tileUpdate"
        /\ DOMAIN events[1].tiles = DOMAIN lastMsg.tiles

(***************************************************************************)
(* C20 amended: the tileUpdate event carries a map with one entry per tile *)
(* of the incoming message, each under the key "tileX,tileY" (column       *)
(* first) of that tile, holding the tile decoded from that tile's payload. *)
(***************************************************************************)
C20_KeyedColumnFirst ==
    lastOp = "message_tileUpdate" =>
        /\ Len(events) = 1
        /\ events[1].name = "tileUpdate"
        /\ events[1].channel = lastMsg.channel
        /\ DOMAIN events[1].tiles = {<<c[2], c[1]>> : c \in DOMAIN lastMsg.tiles}
        /\ Cardinality(DOMAIN events[1].tiles) = Cardinality(DOMAIN lastMsg.tiles)
        /\ \A c \in DOMAIN lastMsg.tiles :
               /\ events[1].tiles[<<c[2], c[1]>>].x = c[2]
               /\ events[1].tiles[<<c[2], c[1]>>].y = c[1]
               /\ events[1].tiles[<<c[2], c[1]>>] = Tile(c[2], c[1], lastMsg.tiles[c])

\* A tileUpdate message with two tiles, one of them row 0, column 1.
C20_Witness ==
    /\ lastOp = "message_tileUpdate"
    /\ Cardinality(DOMAIN lastMsg.tiles) = 2
    /\ <<0, 1>> \in DOMAIN lastMsg.tiles
    /\ <<1, 0>> \in DOMAIN events[1].tiles

(***************************************************************************)
(* C19: connected is emitted only by the handler of a channel message, and *)
(* a listener that reads channelId, chatId and userCount while it is       *)
(* emitted gets the values that channel message carries.                   *)
(***************************************************************************)
C19_ConnectedOnChannel ==
    /\ \A k \in DOMAIN events :
           events[k].name = "connected" =>
               /\ lastOp = "message_channel"
               /\ events[k].seen = <<Some(lastMsg.sender), Some(lastMsg.id),
                                      Some(lastMsg.initial_user_count)>>
    /\ lastOp = "open" => events = <<>>
    /\ lastOp = "message_channel" =>
           /\ Len(events) = 1
           /\ events[1].name = "connected"
           /\ channelId = Some(lastMsg.sender)
           /\ chatId = Some(lastMsg.id)
           /\ userCount = Some(lastMsg.initial_user_count)

\* A channel message has been processed and connected emitted.
C19_Witness ==
    /\ lastOp = "message_channel"
    /\ events # <<>>
    /\ events[1].name = "connected"
    /\ events[1].seen = <<Some("cd"), Some(2), Some(5)>>

(***************************************************************************)
(* C21: after the channel message and any cursor messages that follow it,  *)
(* the guest-cursor table maps each remote channel to the character-space  *)
(* position of its most recent cursor message when that message was not    *)
(* hidden, has no entry for a channel whose most recent cursor message was *)
(* hidden or that sent none, and never has an entry for the session's own  *)
(* channel id; a cursor message of the own channel emits no event.         *)
(***************************************************************************)
CursorPosition(msg) ==
    <<msg.position[1].tileX * 16 + msg.position[1].charX,
      msg.position[1].tileY * 8 + msg.position[1].charY>>

C21_GuestCursorTable ==
    channelId # Undefined =>
        /\ \A c \in Channels \ {channelId[1]} :
               IF c \in DOMAIN lastCursor /\ ~lastCursor[c].hidden
               THEN c \in DOMAIN guestCursors /\ guestCursors[c] = CursorPosition(lastCursor[c])
               ELSE c \notin DOMAIN guestCursors
        /\ channelId[1] \notin DOMAIN guestCursors
        /\ (lastOp = "message_cursor" /\ lastMsg.channel = channelId[1]) => events = <<>>

\* One remote cursor is shown at (-1, 7), another one was shown and is hidden
\* now, and the session's own cursor message has just been ignored.
C21_Witness ==
    /\ channelId = Some("ab")
    /\ lastOp = "message_cursor"
    /\ lastMsg.channel = "ab"
    /\ ~lastMsg.hidden
    /\ DOMAIN guestCursors = {"cd"}
    /\ guestCursors["cd"] = <<-1, 7>>
    /\ "ef" \in DOMAIN lastCursor
    /\ lastCursor["ef"].hidden

(***************************************************************************)
(* C22: after any sequence of setFlushInterval calls, the one of the open  *)
(* handler included, at most one flush timer is armed, and it is the one   *)
(* whose handle the session holds; every call disarms the timer armed      *)
(* before and arms one new timer with the interval it was given.           *)
(***************************************************************************)
Armed == DOMAIN timers

C22_OneFlushTimer ==
    /\ [](/\ Cardinality(Armed) <= 1
          /\ \A handle \in Armed : flushInterval = Some(handle))
    /\ [][lastOp' \in {"setFlushInterval", "open"} =>
            /\ Armed \cap Armed' = {}
            /\ Cardinality(Armed') = 1
            /\ lastOp' = "setFlushInterval" =>
                   \A handle \in Armed' : timers'[handle] = lastCall'.args[1]]_vars

\* The caller set the interval twice before the transport opened; the open
\* handler set it a third time and one timer is armed.
C22_Witness ==
    /\ lastOp = "open"
    /\ timersCreated = 3
    /\ Cardinality(DOMAIN timers) = 1
    /\ flushInterval = Some(3)

(***************************************************************************)
(* C23: writeText(x, y, text) appends one edit per unit of the segmented   *)
(* text other than "\n", in text order; the unit is written at the row y   *)
(* plus the number of newlines before it and at the column x plus the      *)
(* number of units between it and the newline before it (or the start);    *)
(* a newline makes no edit.                                                *)
(***************************************************************************)
EditChar(edit) == edit[6]

EditX(edit) == edit[2] * 16 + edit[4]

EditY(edit) == edit[1] * 8 + edit[3]

NewLinesBefore(units, i) == {j \in 1..(i - 1) : units[j] = NewLine}

\* The units after the newline before unit i (after the start if there is none).
SinceNewLine(units, i) == {j \in 1..(i - 1) : \A n \in NewLinesBefore(units, i) : n < j}

C23_WriteTextLayout ==
    [][lastOp' = "writeText" =>
        LET x == lastCall'.args[1]
            y == lastCall'.args[2]
            units == advancedSplit(lastCall'.args[3], FALSE, FALSE, FALSE)
            written == {i \in DOMAIN units : units[i] # NewLine}
            new == SubSeq(writeBuffer', Len(writeBuffer) + 1, Len(writeBuffer'))
        IN  /\ SubSeq(writeBuffer', 1, Len(writeBuffer)) = writeBuffer
            /\ Len(new) = Cardinality(written)
            /\ \A i \in written :
                   LET edit == new[Cardinality({j \in written : j <= i})]
                   IN  /\ EditChar(edit) = units[i]
                       /\ EditY(edit) = y + Cardinality(NewLinesBefore(units, i))
                       /\ EditX(edit) = x + Cardinality(SinceNewLine(units, i))]_vars

\* "ab\ncd" written at (0, 0): a at (0,0), b at (1,0), c at (0,1), d at (1,1).
C23_Witness ==
    /\ lastOp = "writeText"
    /\ lastCall.args = <<0, 0, TwoLines>>
    /\ Len(writeBuffer) = 4
    /\ \A k \in 1..4 :
           /\ EditChar(writeBuffer[k]) = <<<<97>>, <<98>>, <<99>>, <<100>>>>[k]
           /\ EditX(writeBuffer[k]) = <<0, 1, 0, 1>>[k]
           /\ EditY(writeBuffer[k]) = <<0, 0, 1, 1>>[k]

(***************************************************************************)
(* C24 as stated: every tile, from a null or a non-null payload, has all   *)
(* 128 cells populated: getChar(cx, cy) returns a cell whose character,    *)
(* color and background color are defined.                                 *)
(***************************************************************************)
C24_Original ==
    lastOp = "Tile.getChar" =>
        /\ lastCall.result.char # Undefined
        /\ lastCall.result.color # Undefined
        /\ lastCall.result.bgColor # Undefined

(***************************************************************************)
(* C24, amended: a tile from a null payload has all 128 cells populated    *)
(* (a space, black, no background); the cell i of a tile from a non-null   *)
(* payload has a character exactly when the payload's content segments     *)
(* into more than i units, and a color (background color) exactly when the *)
(* payload has no color (bcolor) array or one with more than i entries.    *)
(***************************************************************************)
HasEntry(array, i) == array = Undefined \/ i < Len(array[1])

C24_CellsAsPayload ==
    lastOp = "Tile.getChar" =>
        LET data == lastCall.args[1]
            i == lastCall.args[3] * 16 + lastCall.args[2]
            cell == lastCall.result
        IN  IF data = Null
            THEN cell.char = Some(Space) /\ cell.color = Some(0) /\ cell.bgColor = Some(-1)
            ELSE /\ cell.char # Undefined <=>
                        i < Len(advancedSplit(data.content, FALSE, FALSE, FALSE))
                 /\ cell.color # Undefined <=> HasEntry(data.properties.color, i)
                 /\ cell.bgColor # Undefined <=> HasEntry(data.properties.bcolor, i)

\* The last cell of a tile whose content starts with a surrogate pair and
\* whose payload has both color arrays: all three are defined.
C24_Witness ==
    /\ lastOp = "Tile.getChar"
    /\ lastCall.args[1] # Null
    /\ lastCall.args[1].content[1] = 55357
    /\ lastCall.args[1].content[2] = 56832
    /\ lastCall.args[2] = 15
    /\ lastCall.args[3] = 7
    /\ lastCall.result.char = Some(<<97>>)
    /\ lastCall.result.color = Some(255)
    /\ lastCall.result.bgColor = Some(255)

(***************************************************************************)
(* C25: the protection getChar reports for the cell k of a decoded tile is *)
(* given by the k-th two-bit field of the packed string (the character     *)
(* k div 3 after the header, its bits 5-4, 3-2 or 1-0): the fields 1, 2, 3 *)
(* give the levels 0, 1, 2; the field 0, a cell beyond the encoded length  *)
(* and an absent packed string give the tile's own writability.            *)
(***************************************************************************)
\* The number of fields the packed string encodes.
EncodedFields(char) == IF char = Undefined \/ char = Some(<<>>) THEN 0 ELSE 3 * (Len(char[1]) - 1)

FieldOf(char, k) == (b64index(char[1][(k \div 3) + 2]) \div (4 ^ (2 - (k % 3)))) % 4

C25_ProtectionFields ==
    (lastOp = "Tile.getChar" /\ lastCall.args[1] # Null) =>
        LET props == lastCall.args[1].properties
            k == lastCall.args[3] * 16 + lastCall.args[2]
        IN  lastCall.result.protection =
                IF k < EncodedFields(props.char) /\ FieldOf(props.char, k) # 0
                THEN Level(FieldOf(props.char, k) - 1)
                ELSE props.writability

\* The packed string "@b" (binary 01 10 11): the third cell is at level 2,
\* whatever the tile's own protection.
C25_Witness ==
    /\ lastOp = "Tile.getChar"
    /\ lastCall.args[1] # Null
    /\ lastCall.args[1].properties.char = Some(<<64, 98>>)
    /\ lastCall.args[1].properties.writability = Level(0)
    /\ lastCall.args[2] = 2
    /\ lastCall.args[3] = 0
    /\ lastCall.result.protection = Level(2)

(***************************************************************************)
(* C26: for all integers x and y, negative ones included, converting the   *)
(* character coordinates (x, y) to (tileX, tileY, charX, charY) and back   *)
(* returns (x, y); the offsets are inside the tile, 0..15 and 0..7.        *)
(***************************************************************************)
C26_CoordsRoundTrip ==
    lastOp = "coordsCharToTile" =>
        /\ lastCall.result.back = lastCall.args
        /\ lastCall.result.tile[3] \in 0..15
        /\ lastCall.result.tile[4] \in 0..7

\* (-17, -1) is the cell (15, 7) of the tile (-2, -1).
C26_Witness ==
    /\ lastOp = "coordsCharToTile"
    /\ lastCall.args = <<-17, -1>>
    /\ lastCall.result.tile = <<-2, -1, 15, 7>>
    /\ lastCall.result.back = <<-17, -1>>

(***************************************************************************)
(* C27: a string of base characters only (no surrogate, no combining mark) *)
(* segments into one unit per character, the k-th unit being the k-th      *)
(* character, and the units concatenated give the string back.             *)
(***************************************************************************)
IsSurrogate(code) == IsLowSurrogate(code) \/ IsHighSurrogate(code)

IsBase(code) == ~IsSurrogate(code) /\ ~IsCombining(code)

RECURSIVE Concat(_)
Concat(units) == IF units = <<>> THEN <<>> ELSE Head(units) \o Concat(Tail(units))

C27_BaseCharsOneUnitEach ==
    (lastOp = "advancedSplit" /\ \A k \in DOMAIN lastCall.args[1] : IsBase(lastCall.args[1][k])) =>
        /\ Len(lastCall.result) = Len(lastCall.args[1])
        /\ \A k \in DOMAIN lastCall.args[1] : lastCall.result[k] = <<lastCall.args[1][k]>>
        /\ Concat(lastCall.result) = lastCall.args[1]

\* "a\naa" gives the four units "a", "\n", "a", "a".
C27_Witness ==
    /\ lastOp = "advancedSplit"
    /\ lastCall.args[1] = <<97, 10, 97, 97>>
    /\ lastCall.result = <<<<97>>, <<10>>, <<97>>, <<97>>>>

(***************************************************************************)
(* C28: a string whose only surrogates are one high surrogate immediately  *)
(* followed by one low surrogate segments so that exactly one unit holds   *)
(* surrogates, and that unit starts with the two code units of the pair;   *)
(* the pair alone gives that one unit.  A string whose only surrogate is   *)
(* one low surrogate gives exactly one "?" unit and no unit that holds a   *)
(* surrogate; the low surrogate alone gives the one unit "?".              *)
(***************************************************************************)
Surrogates(str) == {k \in DOMAIN str : IsSurrogate(str[k])}

HoldsSurrogate(unit) == \E k \in DOMAIN unit : IsSurrogate(unit[k])

C29_WriteCharQueuesOneEdit ==
    [][lastOp' = "writeChar" =>
        LET x == lastCall'.args[1]
            y == lastCall'.args[2]
            id == nextEditId + 1
            edit == writeBuffer'[Len(writeBuffer')]
        IN  /\ wire' = <<>>
            /\ events' = <<>>
            /\ writeBuffer' = Append(writeBuffer, edit)
            /\ nextEditId' = id
            /\ EditId(edit) = id
            /\ EditChar(edit) = lastCall'.args[3]
            /\ id \notin IdsOf(writeBuffer)
            /\ \A j \in DOMAIN waitingEdits : j < id
            /\ DOMAIN waitingEdits' = DOMAIN waitingEdits \cup {id}
            /\ waitingEdits'[id] = edit
            /\ \A j \in DOMAIN waitingEdits : waitingEdits'[j] = waitingEdits[j]
            /\ edit[1] * 8 <= y /\ y < (edit[1] + 1) * 8
            /\ edit[2] * 16 <= x /\ x < (edit[2] + 1) * 16
            /\ edit[3] \in 0..7 /\ edit[4] \in 0..15
            /\ edit[2] * 16 + edit[4] = x
            /\ edit[1] * 8 + edit[3] = y]_vars

\* writeChar(-17, -9, "a") on a buffer that holds an edit: the edit is in
\* the tile (-2, -2) at the offsets (15, 7), behind the other one.
C29_Witness ==
    /\ lastOp = "writeChar"
    /\ lastCall.args = <<-17, -9, <<97>>>>
    /\ Len(writeBuffer) = 2
    /\ SubSeq(writeBuffer[2], 1, 4) = <<-2, -2, 7, 15>>
    /\ EditId(writeBuffer[2]) = 2
    /\ waitingEdits[2] = writeBuffer[2]

(***************************************************************************)
(* C30 as stated: the open handler hands the socket a chathistory request, *)
(* then a cmd_opt message, and only then is a flush timer armed: no timer  *)
(* tick flushes while the transport is still connecting, the edits that    *)
(* writeChar queued before the open stay in the buffer, and the first      *)
(* flush after the open transmits them.                                    *)
(***************************************************************************)
IsPrefix(a, b) == Len(a) <= Len(b) /\ SubSeq(b, 1, Len(a)) = a

OpensInOrder ==
    lastOp' = "open" =>
        /\ wire' = <<Frame("chathistory", <<>>), Frame("cmd_opt", <<>>)>>
        /\ Cardinality(DOMAIN timers') = 1
        /\ writeBuffer' = writeBuffer

FlushesAfterOpen ==
    (wsState = "open" /\ lastOp' = "flushTimer" /\ writeBuffer # <<>>) =>
        wire' = <<Frame("write", SubSeq(writeBuffer, 1, Min(Len(writeBuffer), 512)))>>

\* The step takes nothing out of the buffer and hands the socket no batch.
StaysQueued ==
    /\ IsPrefix(writeBuffer, writeBuffer')
    /\ \A i \in 1..Len(wire') : wire'[i].kind # "write"

C31_LastWriteWins ==
    [][IF lastOp' \in {"message_fetch", "message_tileUpdate"}
       THEN /\ \A c \in DOMAIN lastMsg'.tiles :
                   LET tileX == c[2]
                       tileY == c[1]
                       decoded == Tile(tileX, tileY, lastMsg'.tiles[c])
                   IN  /\ <<tileX, tileY>> \in DOMAIN tiles'
                       /\ tiles'[<<tileX, tileY>>] = decoded
                       /\ getChar(16 * tileX + 15, 8 * tileY + 7)' = TileGetChar(decoded, 15, 7)
            /\ \A key \in DOMAIN tiles \cup DOMAIN tiles' :
                   <<key[2], key[1]>> \notin DOMAIN lastMsg'.tiles =>
                       /\ key \in DOMAIN tiles
                       /\ key \in DOMAIN tiles'
                       /\ tiles'[key] = tiles[key]
                       /\ getChar(16 * key[1], 8 * key[2])' = getChar(16 * key[1], 8 * key[2])
       ELSE /\ tiles' = tiles
            /\ lastOp' = "getChar" =>
                   LET t == coordsCharToTile(lastCall'.args[1], lastCall'.args[2])
                   IN  lastCall'.result =
                           IF <<t[1], t[2]>> \in DOMAIN tiles
                           THEN TileGetChar(tiles[<<t[1], t[2]>>], t[3], t[4])
                           ELSE Null]_vars

\* A tileUpdate message has just replaced tile (1, 0) by a blank one; tile
\* (0, -1), which it does not name, keeps its letters and its protection.
C31_Witness ==
    /\ lastOp = "message_tileUpdate"
    /\ DOMAIN lastMsg.tiles = {<<0, 1>>}
    /\ lastMsg.tiles[<<0, 1>>] = Null
    /\ DOMAIN tiles = {<<1, 0>>, <<0, -1>>}
    /\ getChar(16, 0).char = Some(Space)
    /\ getChar(15, -1).char = Some(<<97>>)
    /\ getChar(15, -1).protection = Level(2)

(***************************************************************************)
(* C32: a clearArea or protect call over the rectangle with corners (x, y) *)
(* and (x + width, y + height) emits its operations tile by tile in        *)
(* row-major order over the covered tile range, one operation per tile;    *)
(* the operation of a tile that lies entirely inside the rectangle is a    *)
(* whole-tile operation and that of any other tile names exactly the cells *)
(* of the tile inside the rectangle, so that a completed call has named    *)
(* every cell of the rectangle, and no cell twice.                         *)
(***************************************************************************)
OpData(op) == IF op.kind = "protect" THEN op.data ELSE op

IsWholeTile(op) == "charX" \notin DOMAIN OpData(op)

TileCellsOf(tileX, tileY) ==
    {<<16 * tileX + cx, 8 * tileY + cy>> : cx \in 0..15, cy \in 0..7}

CellsNamed(op) ==
    LET d == OpData(op)
    IN  IF IsWholeTile(op)
        THEN TileCellsOf(d.tileX, d.tileY)
        ELSE {<<16 * d.tileX + cx, 8 * d.tileY + cy>> :
                 cx \in d.charX..(d.charX + d.charWidth - 1),
                 cy \in d.charY..(d.charY + d.charHeight - 1)}

Rectangle(args) ==
    {<<cx, cy>> : cx \in args[1]..(args[1] + args[3]), cy \in args[2]..(args[2] + args[4])}

TileColumns(args) == (args[1] \div 16)..((args[1] + args[3]) \div 16)

TileRows(args) == (args[2] \div 8)..((args[2] + args[4]) \div 8)

\* The k-th tile of the covered tile range in row-major order.
RowMajor(args, k) ==
    LET ncols == Cardinality(TileColumns(args))
    IN  <<(args[1] \div 16) + ((k - 1) % ncols), (args[2] \div 8) + ((k - 1) \div ncols)>>

C32_OneOperationPerTile ==
    \A id \in DOMAIN areaCalls :
        LET args == areaCalls[id].args
            ops == areaSent[id]
            ntiles == Cardinality(TileColumns(args)) * Cardinality(TileRows(args))
        IN  /\ Len(ops) <= ntiles
            /\ areaCalls[id].state = "resolved" =>
                   /\ Len(ops) = ntiles
                   /\ UNION {CellsNamed(ops[k]) : k \in DOMAIN ops} = Rectangle(args)
            /\ \A k \in DOMAIN ops :
                   LET tile == RowMajor(args, k)
                   IN  /\ <<OpData(ops[k]).tileX, OpData(ops[k]).tileY>> = tile
                       /\ CellsNamed(ops[k]) = TileCellsOf(tile[1], tile[2]) \cap Rectangle(args)
                       /\ IsWholeTile(ops[k]) = (TileCellsOf(tile[1], tile[2]) \subseteq Rectangle(args))
            /\ \A j, k \in DOMAIN ops : j < k => CellsNamed(ops[j]) \cap CellsNamed(ops[k]) = {}

\* A clearArea call over three rows of three tiles has completed: nine
\* operations, the fifth for the whole of tile (-1, 0), the first for the
\* one cell of tile (-2, -1) that the rectangle covers.
C32_Witness ==
    /\ Len(areaCalls) = 1
    /\ areaCalls[1].state = "resolved"
    /\ areaCalls[1].args = <<-17, -1, 31, 12>>
    /\ Len(areaSent[1]) = 9
    /\ areaSent[1][5] = [kind |-> "clear_tile", tileX |-> -1, tileY |-> 0]
    /\ areaSent[1][1] = [kind |-> "clear_tile", tileX |-> -2, tileY |-> -1, charX |-> 15,
                         charY |-> 7, charWidth |-> 1, charHeight |-> 1]

(***************************************************************************)
(* C33: within one clearArea or protect call on an open transport the      *)
(* operations are transmitted one at a time: a step transmits at most one  *)
(* operation, the call sleeps after each transmission, and its next        *)
(* transmission is made by the expiry of that sleep's timer.  The call     *)
(* completes, after exactly one transmission per tile of the covered tile  *)
(* range, and at once and without any transmission when that range is      *)
(* empty.                                                                  *)
(***************************************************************************)
CoveredTiles(args) == Cardinality(TileColumns(args)) * Cardinality(TileRows(args))

AreaOps == {"clearArea", "protect", "sleepDone"}

C33_PacedWithinCall ==
    /\ [](\A id \in DOMAIN areaCalls :
              /\ areaCalls[id].state = "resolved" =>
                     Len(areaSent[id]) = CoveredTiles(areaCalls[id].args)
              /\ CoveredTiles(areaCalls[id].args) = 0 =>
                     areaCalls[id].state = "resolved" /\ areaSent[id] = <<>>
              /\ (areaCalls[id].state = "sleeping") = (id \in Range(sleepers)))
    /\ [][/\ lastOp' \in AreaOps => Len(wire') <= 1
          /\ (wire' # <<>> /\ lastOp' \in AreaOps) =>
                 LET id == lastCall'.args[1]
                 IN  /\ areaCalls'[id].state = "sleeping"
                     /\ sleepers'[Len(sleepers')] = id
                     /\ id \in DOMAIN areaCalls =>
                            lastOp' = "sleepDone" /\ Head(sleepers) = id]_vars
    /\ \A id \in 1..MaxAreaCalls :
           [](id \in DOMAIN areaCalls =>
                  <>(id \in DOMAIN areaCalls /\ areaCalls[id].state = "resolved"))

\* The timer of the call's second sleep has just expired and the call has
\* transmitted its third operation; it sleeps again.
C33_Witness ==
    /\ lastOp = "sleepDone"
    /\ Len(wire) = 1
    /\ Len(areaSent[1]) = 3
    /\ areaCalls[1].state = "sleeping"
    /\ sleepers = <<1>>
    /\ CoveredTiles(areaCalls[1].args) = 6

(***************************************************************************)
(* C39 as stated: also when clearArea and protect calls overlap, an        *)
(* area-operation message is handed to the socket only when a pacing delay *)
(* has passed since the previous one: no other call is still in the sleep  *)
(* it began after its own latest transmission.                             *)
(***************************************************************************)
C39_Original ==
    [][(wire' # <<>> /\ lastOp' \in AreaOps) => Range(sleepers) \subseteq {lastCall'.args[1]}]_vars

(***************************************************************************)
(* C39, amended: pacing holds within each call, not across calls.  When    *)
(* clearArea and protect calls overlap, a call that has transmitted makes  *)
(* its next transmission only when the timer of its own sleep expires, the *)
(* oldest one pending, and it then sleeps again; a transmission of one     *)
(* call neither wakes nor delays the other sleeping calls.                 *)
(***************************************************************************)
C39_PacedPerCall ==
    [][(wire' # <<>> /\ lastOp' \in AreaOps) =>
           LET id == lastCall'.args[1]
           IN  /\ sleepers'[Len(sleepers')] = id
               /\ id \in DOMAIN areaCalls =>
                      /\ lastOp' = "sleepDone"
                      /\ Head(sleepers) = id
                      /\ Len(areaSent'[id]) = Len(areaSent[id]) + 1
               /\ \A other \in Range(sleepers) \ {id} :
                      /\ other \in Range(sleepers')
                      /\ areaSent'[other] = areaSent[other]
                      /\ areaCalls'[other] = areaCalls[other]]_vars

\* A protect call has just transmitted its first operation while a clearArea
\* call, which has transmitted one operation of its four, is asleep.
C39_Witness ==
    /\ lastOp = "protect"
    /\ Len(wire) = 1
    /\ sleepers = <<1, 2>>
    /\ areaCalls[1].kind = "clearArea"
    /\ Len(areaSent[1]) = 1
    /\ CoveredTiles(areaCalls[1].args) = 4
    /\ Len(areaSent[2]) = 1

(***************************************************************************)
(* C34: while the server answers each transmitted copy of an edit at most  *)
(* once, every edit in the outgoing buffer is in the waiting-edit table    *)
(* under its id, so that the table is not empty while the buffer is not.   *)
(***************************************************************************)
C34_BufferedEditsTracked ==
    /\ \A k \in DOMAIN writeBuffer :
           /\ EditId(writeBuffer[k]) \in DOMAIN waitingEdits
           /\ waitingEdits[EditId(writeBuffer[k])] = writeBuffer[k]
    /\ writeBuffer # <<>> => DOMAIN waitingEdits # {}

\* A response has just put a rate-limited edit back in the buffer, behind an
\* edit that has not been transmitted yet; both are in the table.
C34_Witness ==
    /\ lastOp = "message_write"
    /\ Len(writeBuffer) = 2
    /\ EditId(writeBuffer[2]) \in DOMAIN lastMsg.rejected
    /\ EditId(writeBuffer[1]) \notin inflight
    /\ IdsOf(writeBuffer) \subseteq DOMAIN waitingEdits

(***************************************************************************)
(* C35 as stated: once the transport has closed, a tick of the flush timer *)
(* hands the socket nothing and leaves the outgoing buffer as it is.       *)
(***************************************************************************)
C35_Original ==
    [][(wsState = "closed" /\ lastOp' = "flushTimer") =>
           wire' = <<>> /\ writeBuffer' = writeBuffer]_vars

(***************************************************************************)
(* C35, amended: the close of the transport emits disconnected and leaves  *)
(* the flush timer armed and the buffer as it is.  A tick after the close  *)
(* still takes the first 512 edits at most out of a non-empty buffer and   *)
(* hands them to the closed socket; it leaves them in the waiting-edit     *)
(* table and does not put them back in the buffer.  Only a tick on an      *)
(* empty buffer changes nothing.                                           *)
(***************************************************************************)
C35_TicksDrainAfterClose ==
    [][/\ lastOp' = "close" =>
              /\ events' = <<Disconnected>>
              /\ timers' = timers
              /\ writeBuffer' = writeBuffer
       /\ (wsState = "closed" /\ lastOp' = "flushTimer") =>
              /\ timers' = timers
              /\ waitingEdits' = waitingEdits
              /\ writeBuffer' = SubSeq(writeBuffer, Min(Len(writeBuffer), 512) + 1, Len(writeBuffer))
              /\ IF writeBuffer = <<>>
                 THEN wire' = <<>>
                 ELSE /\ Len(wire') = 1
                      /\ wire'[1].edits = SubSeq(writeBuffer, 1, Min(Len(writeBuffer), 512))]_vars

\* The transport is closed and a tick has just emptied a buffer of two
\* edits, which stay in the waiting-edit table.
C35_Witness ==
    /\ wsState = "closed"
    /\ lastOp = "flushTimer"
    /\ writeBuffer = <<>>
    /\ Len(wire) = 1
    /\ Len(wire[1].edits) = 2
    /\ IdsOf(wire[1].edits) \subseteq DOMAIN waitingEdits

(***************************************************************************)
(* C36: a write-result event is emitted for an id only if the id was in    *)
(* the waiting-edit table when the response was processed; a response that *)
(* names only ids that are not in the table emits no write-result event.   *)
(***************************************************************************)
C36_ResultOnlyForWaiting ==
    [][Answers =>
          \A k \in DOMAIN events' :
              events'[k].name = "writeResult" => events'[k].id \in DOMAIN waitingEdits]_vars

(***************************************************************************)
(* C37 as stated: no edit id occurs more than once in the outgoing buffer, *)
(* whatever the server sends, and no batch carries an edit twice.          *)
(***************************************************************************)
NoIdTwice(edits) == \A j, k \in DOMAIN edits : EditId(edits[j]) = EditId(edits[k]) => j = k

C37_Original ==
    /\ NoIdTwice(writeBuffer)
    /\ \A f \in DOMAIN wire : wire[f].kind = "write" => NoIdTwice(wire[f].edits)

(***************************************************************************)
(* C37, amended: an id comes to occur twice in the outgoing buffer only    *)
(* when a write response reports it as rate-limited while the edit is in   *)
(* the buffer already, that is before the client has flushed the copy      *)
(* queued again by an earlier rate-limited report (or queued by writeChar  *)
(* and never transmitted); the handler then queues it once more.  A batch  *)
(* carries an edit twice only if the buffer held it twice.                 *)
(***************************************************************************)
C37_TwiceOnlyByRepeatedReport ==
    [][/\ (NoIdTwice(writeBuffer) /\ ~NoIdTwice(writeBuffer')) =>
              /\ Answers
              /\ \E i \in TransientIds(lastMsg') \cap IdsOf(writeBuffer) :
                     /\ i \in DOMAIN waitingEdits
                     /\ Copies(i, writeBuffer') = 2
       /\ Answers =>
              \A i \in TransientIds(lastMsg') :
                  Copies(i, writeBuffer') <= Copies(i, writeBuffer) + 1
       /\ \A f \in DOMAIN wire' :
              (wire'[f].kind = "write" /\ NoIdTwice(writeBuffer)) => NoIdTwice(wire'[f].edits)]_vars

\* A response has put the rate-limited edit 1 back in the buffer, behind
\* edit 2, which has not been transmitted yet: each id is there once.
C37_Witness ==
    /\ lastOp = "message_write"
    /\ Len(writeBuffer) = 2
    /\ EditId(writeBuffer[1]) = 2
    /\ EditId(writeBuffer[2]) = 1
    /\ 1 \in TransientIds(lastMsg)

(***************************************************************************)
(* C38: the interval of the armed flush timer is the argument of the       *)
(* caller's most recent setFlushInterval call: the open of the transport   *)
(* keeps an interval the caller has set before, and arms the timer with    *)
(* the constructor's flushInterval only when the caller has set none; no   *)
(* other step changes the interval.                                        *)
(***************************************************************************)
C38_CallerIntervalInEffect ==
    [][/\ lastOp' = "setFlushInterval" =>
              \A handle \in Armed' : timers'[handle] = lastCall'.args[1]
       /\ lastOp' = "open" =>
              \A after \in Armed' :
                  /\ Armed = {} => timers'[after] = CtorFlushInterval
                  /\ \A before \in Armed : timers'[after] = timers[before]
       /\ lastOp' \notin {"setFlushInterval", "open"} => timers' = timers]_vars

(***************************************************************************)
(* C40: segmentation loses no base character and makes no empty unit: for  *)
(* every string of base characters, combining marks and surrogates, no     *)
(* unit of the result is the empty string, and the base characters of the  *)
(* units, the "?" units that stand for unpaired surrogates left aside, are *)
(* the base characters of the string, each once and in order.              *)
(***************************************************************************)
BaseChars(str) == SelectSeq(str, IsBase)

C40_NoBaseCharLost ==
    lastOp = "advancedSplit" =>
        LET str == lastCall.args[1]
            units == lastCall.result
        IN  /\ \A j \in DOMAIN units : units[j] # <<>>
            /\ BaseChars(Concat(SelectSeq(units, LAMBDA u : u # QuestionMark))) = BaseChars(str)

=============================================================================
